---- MODULE Spec2Model ----
(***************************************************************************)
(* Model of the Neo4j service layer of projet_kg_wiki                      *)
(* (src/app/database/neo4j.py): the GDS algorithm orchestration            *)
(* (run_pagerank, run_louvain, run_node_similarity and their fallbacks)    *)
(* run by two request handlers against one graph store, the query         *)
(* library (search, shortest path, recommendations, analytics, subgraph    *)
(* export), the session each execute_query and execute_write_query call    *)
(* opens, the HTTP endpoints of src/app/routers and GET /health, the       *)
(* driver's lifecycle (src/app/main.py), and the paged retrieval loop of   *)
(* src/data/query_wikiperdia/retrieve.py.                                  *)
(*                                                                         *)
(* Every execute_query call is one atomic step: it is the only point where *)
(* two request handlers interleave.  A query raises when the store rejects *)
(* it for a reason the model tracks (projection absent or present, GDS     *)
(* plugin absent, query text the Cypher compiler rejects) or when the      *)
(* engine faults (the nondeterministic `fault` of each step).              *)
(*                                                                         *)
(* Numbers the code keeps as floats are exact fractions <<num, den>> here; *)
(* den = 0 is the NaN that Cypher's float division 0.0/0 produces.         *)
(***************************************************************************)
EXTENDS Integers, Sequences, FiniteSets, Bags, TLC

(* ------------------------------ bounds --------------------------------- *)
NumArticles == 5
MaxLimit == 2
MaxDepth == 3
MaxCloses == 3
MaxSessions == 4
MaxAttempts == 2
MaxRequests == 6

(* ------------------------------ the graph ------------------------------ *)
Callers == {1, 2}
Kinds == {"pagerank", "louvain", "similarity"}
Articles == 1..NumArticles
\* an article_id that matches no Article
UnknownArticle == 0
Communities == {1, 2}

\* REFERS_TO relationships as (start, end) pairs; six stored graphs, one
\* of them with an Article that refers to itself
EdgeSets ==
    { {},
      {<<1, 2>>},
      {<<1, 2>>, <<3, 2>>},
      {<<1, 2>>, <<2, 1>>, <<2, 3>>},
      {<<1, 2>>, <<1, 3>>, <<4, 2>>, <<5, 2>>, <<5, 3>>},
      {<<1, 2>>, <<2, 2>>} }

\* BELONGS_TO: the Community of each Article, 0 for none
MemberSets ==
    { [a \in Articles |-> 0],
      [a \in Articles |-> IF a = 1 THEN 1 ELSE 2],
      [a \in Articles |-> IF a <= 2 THEN 1 ELSE 0] }

\* What the native procedures yield on the stored graph: the PageRank score
\* of each Article, the Louvain community of each Article, and the
\* similarity (in hundredths) of each Article to the requested source
Engines ==
    { [score |-> [a \in Articles |-> IF a = 1 THEN <<85, 100>> ELSE <<15, 100>>],
       asg |-> [a \in Articles |-> 1],
       sim |-> [a \in Articles |-> 15]],
      [score |-> [a \in Articles |-> <<a, 10>>],
       asg |-> [a \in Articles |-> IF a = 1 THEN 1 ELSE 2],
       sim |-> [a \in Articles |-> IF a = 2 THEN 100 ELSE 6 + a]],
      [score |-> [a \in Articles |-> <<15, 100>>],
       asg |-> [a \in Articles |-> IF a = 2 THEN 2 ELSE 1],
       sim |-> [a \in Articles |-> IF a = 2 THEN 57 ELSE 96]] }

\* the fixed projection name of each algorithm
ProjectionName(k) ==
    IF k = "pagerank" THEN "articles-pagerank"
    ELSE IF k = "louvain" THEN "articles-louvain"
    ELSE "articles-similarity"

ProjectionNames == {ProjectionName(k) : k \in Kinds}

\* projection ownership: 0 absent, a caller id, or Prior for one left
\* behind by a crashed earlier call
Prior == 3

VARIABLES
    gds,        \* the GDS plugin is installed in the store
    proj,       \* proj[name]: owner of the projection of that name
    edges,      \* REFERS_TO relationships
    member,     \* BELONGS_TO
    engine,     \* what the GDS procedures compute on this graph
    clock,      \* wall clock, one tick per store call
    pc,         \* pc[c]: position of request handler c
    kind,       \* kind[c]: which run_* the handler executes
    req,        \* req[c]: the call's arguments
    start_time, \* start_time[c]: the time mark the reported duration uses
    total_nodes,\* total_nodes[c]: nodeCount of the projection c created
    calls,      \* calls[c]: the store calls issued so far, with outcome
    pending,    \* pending[c]: what the try block produced, held over finally
    outcome,    \* outcome[c]: "none", "return" or "raise"
    path,       \* path[c]: "none", "short", "native", "fallback"
    result,     \* result[c]: the returned mapping
    computed_with, \* computed_with[c]: the parameter map of the query
                \* whose rows the result was built from
    qpc,        \* query library: "idle" or "done"
    qop,        \* the library method called
    qargs,      \* its arguments
    qoutcome,   \* "none", "return" or "raise"
    qresult,    \* what it returned
    qcalls,     \* the execute_query calls it issued, with outcome
    phase,      \* lifespan: "running" (at the yield) or "stopped"
    pool,       \* the driver's connection pool: "open" or "closed"
    closes,     \* the close() calls made so far, with what each did
    debug,      \* settings.debug
    sessions,   \* the driver sessions that are open
    gpc,        \* gpc[c]: "idle", or "in_session" inside execute_*query
    gcall,      \* gcall[c]: the current (or last) execute_*query call of c
    session_log,\* every driver.session() made so far, with the call it serves
    fpc,        \* fetch_all_data: "idle", "request", "check" or "done"
    fargs,      \* its arguments limit, max_results, retries
    offset,     \* its offset
    all_rows,   \* len(all_rows)
    attempt,    \* the attempt of the for loop
    data,       \* its data: whether assigned, len(data), the offset it is of
    requests,   \* the offsets of the requests sent so far
    data_reads, \* the reads of data at the end of the while body, with
                \* the offset it is of and the offset of the batch just tried
    foutcome    \* "none", "return" or "raise"

vars == <<gds, proj, edges, member, engine, clock, pc, kind, req, start_time,
          total_nodes, calls, pending, outcome, path, result, computed_with,
          qpc, qop, qargs, qoutcome, qresult, qcalls,
          phase, pool, closes, debug, sessions, gpc, gcall, session_log,
          fpc, fargs, offset, all_rows, attempt, data, requests, data_reads,
          foutcome>>

fetchVars == <<fpc, fargs, offset, all_rows, attempt, data, requests,
               data_reads, foutcome>>

gatewayVars == <<sessions, gpc, gcall, session_log>>

\* what the orchestration and the query library leave alone
auxVars == <<debug, gatewayVars, fetchVars>>

graphVars == <<gds, edges, member, engine>>

queryVars == <<qpc, qop, qargs, qoutcome, qresult, qcalls>>

appVars == <<phase, pool, closes>>

callVars == <<proj, clock, pc, kind, req, start_time, total_nodes, calls,
              pending, outcome, path, result, computed_with>>

(* --------------------------- numeric helpers --------------------------- *)
Min(a, b) == IF a <= b THEN a ELSE b
Max(a, b) == IF a >= b THEN a ELSE b

RECURSIVE SumOver(_, _)
SumOver(S, f) ==
    IF S = {} THEN 0
    ELSE LET x == CHOOSE y \in S : TRUE IN f[x] + SumOver(S \ {x}, f)

RECURSIVE SeqSum(_)
SeqSum(s) == IF s = <<>> THEN 0 ELSE Head(s) + SeqSum(Tail(s))

IsNaN(x) == x[2] = 0
\* x < y under Cypher's ordering of numbers: NaN is greater than all
CypherLess(x, y) ==
    IF IsNaN(x) THEN FALSE
    ELSE IF IsNaN(y) THEN TRUE
    ELSE x[1] * y[2] < y[1] * x[2]
\* x > y as IEEE floats compare: false when either side is NaN
FloatGreater(x, y) == ~IsNaN(x) /\ ~IsNaN(y) /\ x[1] * y[2] > y[1] * x[2]
FloatEqual(x, y) == ~IsNaN(x) /\ ~IsNaN(y) /\ x[1] * y[2] = y[1] * x[2]
RatAdd(x, y) == <<x[1] * y[2] + y[1] * x[2], x[2] * y[2]>>

RECURSIVE RatSeqSum(_)
RatSeqSum(s) == IF s = <<>> THEN <<0, 1>> ELSE RatAdd(Head(s), RatSeqSum(Tail(s)))

(* ----------------------- Cypher result ordering ------------------------ *)
\* every enumeration of a set of rows
RECURSIVE Perms(_)
Perms(S) ==
    IF S = {} THEN {<<>>}
    ELSE UNION {{<<x>> \o p : p \in Perms(S \ {x})} : x \in S}

\* ORDER BY key DESC: rows with equal keys come in any order
OrderByDesc(S, Key(_)) ==
    LET ordered[T \in SUBSET S] ==
            IF T = {} THEN {<<>>}
            ELSE UNION {{<<x>> \o rest : rest \in ordered[T \ {x}]} :
                        x \in {y \in T : \A z \in T : ~CypherLess(Key(y), Key(z))}}
    IN ordered[S]

\* LIMIT n
Limit(rows, n) == SubSeq(rows, 1, Min(n, Len(rows)))

(* ----------------------------- graph reads ----------------------------- *)
Title(a) == 100 + a
\* the title run_node_similarity reports for a source it did not find
UnknownTitle == -1

\* Articles joined to a by a REFERS_TO relationship in either direction
Neighbours(a) == {b \in Articles : <<a, b>> \in edges \/ <<b, a>> \in edges}

\* count(r) of OPTIONAL MATCH (a)-[r:REFERS_TO]-()
Degree(a) == Cardinality({e \in edges : e[1] = a \/ e[2] = a})

\* variant: the lookup yields a row whether or not the Article exists
SourceRowsAlwaysFound(article_id) ==
    <<[article_id |-> article_id,
       article_title |-> IF article_id \in Articles THEN Title(article_id)
                         ELSE UnknownTitle]>>

\* MATCH (a:Article {article_id: $article_id}) RETURN article_id, article_title
SourceRows(article_id) ==
    IF article_id \in Articles
    THEN <<[article_id |-> article_id, article_title |-> Title(article_id)]>>
    ELSE <<>>

(* --------------------------- PageRank fallback ------------------------- *)
\* WITH a, degree, sum(degree) as total_degree: a and degree are the
\* grouping keys, so the sum runs over the rows that share both
GroupTotalDegree(a) ==
    SumOver({b \in Articles : <<b, Degree(b)>> = <<a, Degree(a)>>},
            [b \in Articles |-> Degree(b)])

\* the rows of the fallback query before ORDER BY and LIMIT
PagerankFallbackRows ==
    {[article_id |-> a, article_title |-> Title(a),
      score |-> <<Degree(a), GroupTotalDegree(a)>>] : a \in Articles}

\* variant: enumerate(results) without the start index
AddRankingFromZero(results) ==
    [i \in 1..Len(results) |-> results[i] @@ [rank |-> i - 1]]

\* for idx, result in enumerate(results, 1): result["rank"] = idx
AddRanking(results) ==
    [i \in 1..Len(results) |-> results[i] @@ [rank |-> i]]

\* variant: the fallback returns the rows without the rank
PagerankFallbackResultsUnranked(limit) ==
    {Limit(rows, limit) :
        rows \in OrderByDesc(PagerankFallbackRows, LAMBDA r : r.score)}

\* the results list _pagerank_fallback builds, one per engine tie order
PagerankFallbackResults(limit) ==
    {AddRanking(Limit(rows, limit)) :
        rows \in OrderByDesc(PagerankFallbackRows, LAMBDA r : r.score)}

(* ---------------------------- PageRank native -------------------------- *)

\* YIELD nodeId, score, resolved through gds.util.asNode
PagerankStreamRows ==
    {[article_id |-> a, article_title |-> Title(a), score |-> engine.score[a]] :
        a \in Articles}

\* the results list run_pagerank builds, one per engine tie order
PagerankNativeResults(limit) ==
    {AddRanking(Limit(rows, limit)) :
        rows \in OrderByDesc(PagerankStreamRows, LAMBDA r : r.score)}

(* ----------------------------- Louvain native ------------------------- *)
\* WITH communityId, count(*) as size
LouvainStreamRows ==
    {[community_id |-> k,
      size |-> Cardinality({a \in Articles : engine.asg[a] = k})] :
        k \in {engine.asg[a] : a \in Articles}}

\* comm["modularity"] = min(comm["size"] / (avg_size * 2), 1.0), with
\* avg_size = total / max(n, 1)
ModularityProxy(size, total, n) ==
    IF size * Max(n, 1) >= 2 * total THEN <<1, 1>>
    ELSE <<size * Max(n, 1), 2 * total>>

LouvainAddModularity(communities) ==
    LET n == Len(communities)
        total == SeqSum([i \in 1..n |-> communities[i].size])
    IN [i \in 1..n |->
           communities[i] @@
           [modularity |-> ModularityProxy(communities[i].size, total, n)]]

\* sum(c["modularity"] for c in communities) / max(total_communities, 1)
OverallModularity(communities) ==
    LET n == Len(communities)
        s == RatSeqSum([i \in 1..n |-> communities[i].modularity])
    IN <<s[1], s[2] * Max(n, 1)>>

LouvainNativeCommunities ==
    {LouvainAddModularity(rows) :
        rows \in OrderByDesc(LouvainStreamRows, LAMBDA r : <<r.size, 1>>)}

(* ---------------------------- Louvain fallback ------------------------- *)
\* Communities that carry a density property; COALESCE gives the rest 0.5
Density(k) == IF k = 1 THEN <<3, 10>> ELSE <<1, 2>>

\* variant: the query without WHERE size > 0
LouvainFallbackRowsUnfiltered ==
    {[community_id |-> k,
      size |-> Cardinality({a \in Articles : member[a] = k}),
      modularity |-> Density(k)] : k \in Communities}

\* MATCH (c:Community) OPTIONAL MATCH (a:Article)-[:BELONGS_TO]->(c)
\* WITH c, count(a) as size WHERE size > 0
LouvainFallbackRows ==
    {r \in {[community_id |-> k,
             size |-> Cardinality({a \in Articles : member[a] = k}),
             modularity |-> Density(k)] : k \in Communities} :
        r.size > 0}

LouvainFallbackCommunities ==
    OrderByDesc(LouvainFallbackRows, LAMBDA r : <<r.size, 1>>)

\* ... if communities else 0.0
FallbackOverallModularity(communities) ==
    IF Len(communities) > 0 THEN OverallModularity(communities) ELSE <<0, 1>>

(* -------------------------- similarity native -------------------------- *)
\* Python's round(): to the nearest integer, halves to the even one
RoundHalfEven(n, d) ==
    LET q == n \div d
        r == n % d
    IN IF 2 * r > d THEN q + 1
       ELSE IF 2 * r < d THEN q
       ELSE IF q % 2 = 0 THEN q ELSE q + 1

\* variant: round(result["similarity_score"] * 10)
EstimateCommonNeighborsRounded(score) == RoundHalfEven(score[1] * 10, score[2])

\* int(result["similarity_score"] * 10)
EstimateCommonNeighbors(score) == (score[1] * 10) \div score[2]

AddCommonNeighbors(results) ==
    [i \in 1..Len(results) |->
        results[i] @@
        [common_neighbors |-> EstimateCommonNeighbors(results[i].similarity_score)]]

\* the pairs whose first node is the source, at or above the cutoff
SimilarityStreamRows(article_id, cutoff) ==
    {[article_id |-> x, article_title |-> Title(x),
      similarity_score |-> <<engine.sim[x], 100>>] :
        x \in {y \in Articles \ {article_id} : engine.sim[y] >= cutoff}}

SimilarityNativeResults(article_id, limit, cutoff) ==
    {AddCommonNeighbors(Limit(rows, limit)) :
        rows \in OrderByDesc(SimilarityStreamRows(article_id, cutoff),
                             LAMBDA r : r.similarity_score)}

(* ------------------------- similarity fallback ------------------------- *)
\* MATCH (source)-[:REFERS_TO]-(neighbor) MATCH (neighbor)-[:REFERS_TO]-(similar)
\* WHERE similar.article_id <> $article_id AND NOT (source)-[:REFERS_TO]-(similar)
SimilarCandidates(s) ==
    {x \in Articles :
        /\ x # s
        /\ x \notin Neighbours(s)
        /\ \E n \in Neighbours(s) : x \in Neighbours(n)}

\* count(DISTINCT neighbor)
CommonNeighbors(s, x) == Cardinality(Neighbours(s) \cap Neighbours(x))

\* variant: the divisor keeps the common neighbours counted twice
JaccardScoreOverSum(s, x) ==
    <<CommonNeighbors(s, x),
      Cardinality(Neighbours(s)) + Cardinality(Neighbours(x))>>

\* toFloat(common_neighbors) /
\*     (source_neighbors + similar_neighbors - common_neighbors)
JaccardScore(s, x) ==
    <<CommonNeighbors(s, x),
      Cardinality(Neighbours(s)) + Cardinality(Neighbours(x))
          - CommonNeighbors(s, x)>>

\* WHERE similarity_score >= $similarity_cutoff, the cutoff in hundredths
SimilarityFallbackRows(article_id, cutoff) ==
    {[article_id |-> x, article_title |-> Title(x),
      similarity_score |-> JaccardScore(article_id, x),
      common_neighbors |-> CommonNeighbors(article_id, x)] :
        x \in {y \in SimilarCandidates(article_id) :
                 ~CypherLess(JaccardScore(article_id, y), <<cutoff, 100>>)}}

SimilarityFallbackResults(article_id, limit, cutoff) ==
    {Limit(rows, limit) :
        rows \in OrderByDesc(SimilarityFallbackRows(article_id, cutoff),
                             LAMBDA r : r.similarity_score)}

(* ------------------------------ requests ------------------------------- *)
PagerankRequests ==
    [max_iterations : {20}, damping_factor : {50, 85}, limit : 1..MaxLimit]
LouvainRequests ==
    [max_levels : {1, 10}, include_intermediate : {FALSE}]
SimilarityRequests ==
    [article_id : {1, UnknownArticle}, limit : 1..MaxLimit,
     similarity_cutoff : {5, 75}]

Requests(k) ==
    IF k = "pagerank" THEN PagerankRequests
    ELSE IF k = "louvain" THEN LouvainRequests
    ELSE SimilarityRequests

NoRequest == [none |-> TRUE]
NoResult == [none |-> TRUE]
NoPending == [outcome |-> "none", result |-> NoResult]

(* ------------------------------ initial state -------------------------- *)
\* the projections a crashed earlier call may have left behind; they live
\* in the GDS plugin, so there are none without it
StaleSets == {[n \in ProjectionNames |-> 0], [n \in ProjectionNames |-> Prior]}

InitCallers ==
    /\ clock = 0
    /\ pc = [c \in Callers |-> "idle"]
    /\ kind = [c \in Callers |-> "none"]
    /\ req = [c \in Callers |-> NoRequest]
    /\ start_time = [c \in Callers |-> 0]
    /\ total_nodes = [c \in Callers |-> 0]
    /\ calls = [c \in Callers |-> <<>>]
    /\ pending = [c \in Callers |-> NoPending]
    /\ outcome = [c \in Callers |-> "none"]
    /\ path = [c \in Callers |-> "none"]
    /\ result = [c \in Callers |-> NoResult]
    /\ computed_with = [c \in Callers |-> NoRequest]

InitQuery ==
    /\ qpc = "idle"
    /\ qop = "none"
    /\ qargs = NoRequest
    /\ qoutcome = "none"
    /\ qresult = NoResult
    /\ qcalls = <<>>

\* lifespan up to its yield: the service is constructed, the driver open
InitApp ==
    /\ phase = "running"
    /\ pool = "open"
    /\ closes = <<>>

\* no execute_*query call has been made
NoCall == [method |-> "none", call |-> 0, session |-> 0, attempts |-> 0,
           outcome |-> "none"]

InitGateway ==
    /\ sessions = {}
    /\ gpc = [c \in Callers |-> "idle"]
    /\ gcall = [c \in Callers |-> NoCall]
    /\ session_log = <<>>

\* data before its first assignment
Unassigned == [assigned |-> FALSE, len |-> 0, of |-> 0]

\* fetch_all_data has not been called
InitFetch ==
    /\ fpc = "idle"
    /\ fargs = NoRequest
    /\ offset = 0
    /\ all_rows = 0
    /\ attempt = 0
    /\ data = Unassigned
    /\ requests = <<>>
    /\ data_reads = {}
    /\ foutcome = "none"

Init ==
    /\ debug = FALSE
    /\ InitGateway
    /\ InitFetch
    /\ gds \in BOOLEAN
    /\ proj \in StaleSets
    /\ ~gds => proj = [n \in ProjectionNames |-> 0]
    /\ edges \in EdgeSets
    /\ member \in MemberSets
    /\ engine \in Engines
    /\ InitCallers
    /\ InitQuery
    /\ InitApp

(* ------------------------------ store calls ---------------------------- *)
\* one execute_query call: logged, and the clock moves
Issue(c, op, ok) ==
    /\ calls' = [calls EXCEPT ![c] =
           Append(@, [op |-> op, ok |-> ok,
                      present |-> proj[ProjectionName(kind[c])] # 0])]
    /\ clock' = clock + 1

\* CALL gds.graph.drop(name): raises when the projection is absent
DropSucceeds(name, fault) == gds /\ proj[name] # 0 /\ ~fault
\* CALL gds.graph.project(name, ...): raises when the name is taken
CreateSucceeds(name, fault) == gds /\ proj[name] = 0 /\ ~fault
\* CALL gds.<algorithm>.stream(name, ...): raises when the projection is absent
StreamSucceeds(name, fault) == gds /\ proj[name] # 0 /\ ~fault

\* variant: a drop that raises has removed the projection all the same
AfterDropAlways(name, fault) == [proj EXCEPT ![name] = 0]

\* what a drop leaves of the projections
AfterDrop(name, fault) ==
    IF DropSucceeds(name, fault) THEN [proj EXCEPT ![name] = 0] ELSE proj

\* variant: the Louvain finally block drops the PageRank projection
TeardownNameWrong(k) ==
    IF k = "louvain" THEN ProjectionName("pagerank") ELSE ProjectionName(k)

\* the name the finally block of run_<k> drops
TeardownName(k) == ProjectionName(k)

\* (time.time() - start_time) * 1000, read after the store call of this step
ExecutionTimeMs(c) == ((clock + 1) - start_time[c]) * 1000

Raise(c) ==
    /\ outcome' = [outcome EXCEPT ![c] = "raise"]
    /\ pc' = [pc EXCEPT ![c] = "done"]

Return(c, p, r) ==
    /\ outcome' = [outcome EXCEPT ![c] = "return"]
    /\ path' = [path EXCEPT ![c] = p]
    /\ result' = [result EXCEPT ![c] = r]
    /\ pc' = [pc EXCEPT ![c] = "done"]

(* ------------------------------- actions ------------------------------- *)
\* a request handler enters run_pagerank, run_louvain or run_node_similarity;
\* a handler that starts after another one calls the same endpoint
Start(c) ==
    /\ pc[c] = "idle"
    /\ \E k \in Kinds : \E r \in Requests(k) :
        /\ \A d \in Callers \ {c} : kind[d] \in {"none", k}
        /\ kind' = [kind EXCEPT ![c] = k]
        /\ req' = [req EXCEPT ![c] = r]
        /\ pc' = [pc EXCEPT ![c] = IF k = "similarity" THEN "lookup" ELSE "drop"]
    /\ start_time' = [start_time EXCEPT ![c] = clock]
    /\ UNCHANGED <<auxVars, graphVars, queryVars, appVars, proj, clock, total_nodes, calls, pending,
                   outcome, path, result, computed_with>>

\* run_node_similarity: the source lookup and the short circuit
Lookup(c) ==
    /\ pc[c] = "lookup"
    /\ \E fault \in BOOLEAN :
        /\ Issue(c, "lookup", ~fault)
        /\ IF fault
           THEN Raise(c) /\ UNCHANGED <<path, result>>
           ELSE IF SourceRows(req[c].article_id) = <<>>
           THEN Return(c, "short",
                       [source_article_id |-> req[c].article_id,
                        source_article_title |-> UnknownTitle,
                        similar_articles |-> <<>>,
                        execution_time_ms |-> 0])
           ELSE /\ pc' = [pc EXCEPT ![c] = "drop"]
                /\ UNCHANGED <<outcome, path, result>>
    /\ UNCHANGED <<auxVars, graphVars, queryVars, appVars, proj, kind, req, start_time, total_nodes,
                   pending, computed_with>>

\* the best-effort drop before the projection is created
LeadingDrop(c) ==
    /\ pc[c] = "drop"
    /\ \E fault \in BOOLEAN :
        /\ Issue(c, "drop", DropSucceeds(ProjectionName(kind[c]), fault))
        /\ proj' = AfterDrop(ProjectionName(kind[c]), fault)
    /\ pc' = [pc EXCEPT ![c] = "create"]
    /\ UNCHANGED <<auxVars, graphVars, queryVars, appVars, kind, req, start_time, total_nodes, pending,
                   outcome, path, result, computed_with>>

\* variant: a failed creation is passed over and the algorithm is run
AfterCreateFailureStream == "stream"

\* except Exception: return self._<algorithm>_fallback(...)
AfterCreateFailure == "fallback"

\* the projection is created; on failure the fallback is entered, which
\* takes its own start_time
CreateProjection(c) ==
    /\ pc[c] = "create"
    /\ \E fault \in BOOLEAN :
        /\ Issue(c, "create", CreateSucceeds(ProjectionName(kind[c]), fault))
        /\ IF CreateSucceeds(ProjectionName(kind[c]), fault)
           THEN /\ proj' = [proj EXCEPT ![ProjectionName(kind[c])] = c]
                /\ total_nodes' = [total_nodes EXCEPT ![c] =
                       IF kind[c] = "pagerank" THEN Cardinality(Articles) ELSE @]
                /\ pc' = [pc EXCEPT ![c] = "stream"]
                /\ UNCHANGED start_time
           ELSE /\ pc' = [pc EXCEPT ![c] = AfterCreateFailure]
                /\ start_time' = [start_time EXCEPT ![c] = clock + 1]
                /\ UNCHANGED <<proj, total_nodes>>
    /\ UNCHANGED <<auxVars, graphVars, queryVars, appVars, kind, req, pending, outcome, path, result,
                   computed_with>>

\* variant: the parameters travel with the projection, so the query runs
\* with those of whoever created the projection it finds
StreamParametersOfOwner(c) ==
    IF proj[ProjectionName(kind[c])] \in Callers
    THEN req[proj[ProjectionName(kind[c])]]
    ELSE req[c]

\* the parameter map handed to the algorithm query: the caller's own
StreamParameters(c) == req[c]

\* source_info = source_results[0]
SourceInfo(c) == SourceRows(req[c].article_id)[1]

\* what the try block of each run_* builds from the streamed rows
NativeResults(c, params) ==
    IF kind[c] = "pagerank"
    THEN {[total_nodes |-> total_nodes[c],
           results |-> rs,
           execution_time_ms |-> ExecutionTimeMs(c)] :
             rs \in PagerankNativeResults(params.limit)}
    ELSE IF kind[c] = "louvain"
    THEN {[total_communities |-> Len(cs),
           modularity |-> OverallModularity(cs),
           communities |-> cs,
           execution_time_ms |-> ExecutionTimeMs(c)] :
             cs \in LouvainNativeCommunities}
    ELSE {[source_article_id |-> SourceInfo(c).article_id,
           source_article_title |-> SourceInfo(c).article_title,
           similar_articles |-> rs,
           execution_time_ms |-> ExecutionTimeMs(c)] :
             rs \in SimilarityNativeResults(params.article_id, params.limit,
                                            params.similarity_cutoff)}

\* the algorithm query inside try; its outcome is held while finally runs
RunAlgorithm(c) ==
    /\ pc[c] = "stream"
    /\ \E fault \in BOOLEAN :
        /\ Issue(c, "stream", StreamSucceeds(ProjectionName(kind[c]), fault))
        /\ IF StreamSucceeds(ProjectionName(kind[c]), fault)
           THEN /\ \E r \in NativeResults(c, StreamParameters(c)) :
                      pending' = [pending EXCEPT ![c] =
                                     [outcome |-> "return", result |-> r]]
                /\ computed_with' =
                       [computed_with EXCEPT ![c] = StreamParameters(c)]
           ELSE /\ pending' = [pending EXCEPT ![c] =
                                  [outcome |-> "raise", result |-> NoResult]]
                /\ UNCHANGED computed_with
    /\ pc' = [pc EXCEPT ![c] = "teardown"]
    /\ UNCHANGED <<auxVars, graphVars, queryVars, appVars, proj, kind, req, start_time, total_nodes,
                   outcome, path, result>>

\* where the call goes once the finally block has run
AfterTeardown(c) ==
    IF pending[c].outcome = "return"
    THEN Return(c, "native", pending[c].result)
    ELSE Raise(c) /\ UNCHANGED <<path, result>>

\* finally: drop the projection, whatever the try block did
Teardown(c) ==
    /\ pc[c] = "teardown"
    /\ \E fault \in BOOLEAN :
        /\ Issue(c, "drop", DropSucceeds(TeardownName(kind[c]), fault))
        /\ proj' = AfterDrop(TeardownName(kind[c]), fault)
    /\ AfterTeardown(c)
    /\ UNCHANGED <<auxVars, graphVars, queryVars, appVars, kind, req, start_time, total_nodes, pending,
                   computed_with>>

\* the results of the single query of _louvain_fallback and
\* _node_similarity_fallback
FallbackResults(c) ==
    IF kind[c] = "louvain"
    THEN {[total_communities |-> Len(cs),
           modularity |-> FallbackOverallModularity(cs),
           communities |-> cs,
           execution_time_ms |-> ExecutionTimeMs(c)] :
             cs \in LouvainFallbackCommunities}
    ELSE {[source_article_id |-> SourceInfo(c).article_id,
           source_article_title |-> SourceInfo(c).article_title,
           similar_articles |-> rs,
           execution_time_ms |-> ExecutionTimeMs(c)] :
             rs \in SimilarityFallbackResults(req[c].article_id, req[c].limit,
                                              req[c].similarity_cutoff)}

\* the first (for PageRank) or only query of the fallback
Fallback(c) ==
    /\ pc[c] = "fallback"
    /\ \E fault \in BOOLEAN :
        /\ Issue(c, "fallback", ~fault)
        /\ IF fault
           THEN Raise(c) /\ UNCHANGED <<path, result, pending, computed_with>>
           ELSE /\ computed_with' = [computed_with EXCEPT ![c] = req[c]]
                /\ IF kind[c] = "pagerank"
                   THEN /\ \E rs \in PagerankFallbackResults(req[c].limit) :
                              pending' = [pending EXCEPT ![c] =
                                  [outcome |-> "none", result |-> [results |-> rs]]]
                        /\ pc' = [pc EXCEPT ![c] = "count"]
                        /\ UNCHANGED <<outcome, path, result>>
                   ELSE /\ \E r \in FallbackResults(c) : Return(c, "fallback", r)
                        /\ UNCHANGED pending
    /\ UNCHANGED <<auxVars, graphVars, queryVars, appVars, proj, kind, req, start_time, total_nodes>>

\* _pagerank_fallback: MATCH (a:Article) RETURN count(a) as count
FallbackCount(c) ==
    /\ pc[c] = "count"
    /\ \E fault \in BOOLEAN :
        /\ Issue(c, "count", ~fault)
        /\ IF fault
           THEN Raise(c) /\ UNCHANGED <<path, result, total_nodes>>
           ELSE /\ total_nodes' = [total_nodes EXCEPT ![c] = Cardinality(Articles)]
                /\ Return(c, "fallback",
                          [total_nodes |-> Cardinality(Articles),
                           results |-> pending[c].result.results,
                           execution_time_ms |-> ExecutionTimeMs(c)])
    /\ UNCHANGED <<auxVars, graphVars, queryVars, appVars, proj, kind, req, start_time, pending,
                   computed_with>>

Step(c) ==
    \/ Start(c)
    \/ Lookup(c)
    \/ LeadingDrop(c)
    \/ CreateProjection(c)
    \/ RunAlgorithm(c)
    \/ Teardown(c)
    \/ Fallback(c)
    \/ FallbackCount(c)

\* one request handler, no other call in flight
Next ==
    \/ Start(1)
    \/ Lookup(1)
    \/ LeadingDrop(1)
    \/ CreateProjection(1)
    \/ RunAlgorithm(1)
    \/ Teardown(1)
    \/ Fallback(1)
    \/ FallbackCount(1)

Spec == Init /\ [][Next]_vars

\* two request handlers of the same endpoint served in parallel
NextPair == \E c \in Callers : Step(c)

InitPair ==
    /\ debug = FALSE
    /\ InitGateway
    /\ InitFetch
    /\ gds = TRUE
    /\ proj = [n \in ProjectionNames |-> 0]
    /\ edges = {<<1, 2>>, <<3, 2>>}
    /\ member = [a \in Articles |-> IF a = 1 THEN 1 ELSE 2]
    /\ engine \in {e \in Engines : e.asg[1] # e.asg[2] /\ e.sim[2] = 100}
    /\ InitCallers
    /\ InitQuery
    /\ InitApp

SpecPair == InitPair /\ [][NextPair]_vars

(* ------------------------------ query library ------------------------- *)
\* every node of the store: Articles and Communities
Nodes ==
    [label : {"Article"}, key : Articles] \cup [label : {"Community"}, key : Communities]

\* id(n)
InternalId(n) == IF n.label = "Article" THEN n.key ELSE NumArticles + n.key

\* the name and title properties; an empty text stands for a missing one
NodeName(n) ==
    IF n.label = "Community"
    THEN (IF n.key = 1 THEN <<"a">> ELSE <<"C">>)
    ELSE <<>>
NodeTitle(n) ==
    IF n.label = "Article"
    THEN (IF n.key = 1 THEN <<"A", "b">>
          ELSE IF n.key = 2 THEN <<"a", "B">>
          ELSE <<"b">>)
    ELSE <<>>

\* toLower()
ToLower(s) ==
    [i \in 1..Len(s) |->
        IF s[i] = "A" THEN "a" ELSE IF s[i] = "B" THEN "b"
        ELSE IF s[i] = "C" THEN "c" ELSE s[i]]

\* s CONTAINS t; null (a missing property) CONTAINS nothing
Contains(s, t) ==
    /\ s # <<>>
    /\ \E i \in 0..(Len(s) - Len(t)) : SubSeq(s, i + 1, i + Len(t)) = t

SearchRows(search_term) ==
    {[id |-> InternalId(n), labels |-> {n.label},
      properties |-> [name |-> NodeName(n), title |-> NodeTitle(n)]] :
        n \in {m \in Nodes :
                 \/ Contains(ToLower(NodeName(m)), ToLower(search_term))
                 \/ Contains(ToLower(NodeTitle(m)), ToLower(search_term))}}

\* search_entities: LIMIT $limit without ORDER BY, rows in any order
SearchEntities(search_term, limit) ==
    {Limit(rows, limit) : rows \in Perms(SearchRows(search_term))}

Strategies == {"community", "references", "hybrid"}
\* the strategy strings a caller may send
StrategyInputs == Strategies \cup {"invalid"}

\* variant: the endpoint lets every strategy string through
StrategyInvalidNever(strategy) == FALSE

\* if rec_request.strategy not in ["community", "references", "hybrid"]
StrategyInvalid(strategy) == strategy \notin Strategies

\* if strategy == "community" ... elif strategy == "references" ... else
RecommendationQuery(strategy) ==
    IF strategy = "community" THEN "community"
    ELSE IF strategy = "references" THEN "references"
    ELSE "hybrid"

\* The Cypher compiler rejects two of the three recommendation queries:
\* 'community' reads c.community_id in RETURN after a WITH that projects
\* only recommended and comm_traffic, and 'hybrid' puts a WHERE directly
\* after UNWIND.
QueryRejected(strategy) == strategy \in {"community", "hybrid"}

\* the rows of the 'references' query before ORDER BY and LIMIT
ReferencesRows(article_id) ==
    {[id |-> x, target |-> x, community_id |-> member[x],
      score |-> <<CommonNeighbors(article_id, x), 1>>,
      reason |-> <<CommonNeighbors(article_id, x), "common references">>] :
        x \in SimilarCandidates(article_id)}

\* get_recommendations(article_id, limit, "references")
RecommendReferences(article_id, limit) ==
    {Limit(rows, limit) :
        rows \in OrderByDesc(ReferencesRows(article_id), LAMBDA r : r.score)}

\* the rows of MATCH ()-[r:REFERS_TO]-(): each relationship once per
\* orientation, which is one row only for an Article that refers to itself
TraversalRows ==
    {<<e[1], e, e[2]>> : e \in edges} \cup {<<e[2], e, e[1]>> : e \in edges}

\* stats_query: each MATCH after a WITH that aggregates under grouping keys
\* yields no row when it matches nothing
StatsRows ==
    IF Articles = {} \/ Communities = {} \/ edges = {} THEN <<>>
    ELSE LET total_edges == Cardinality(TraversalRows) \div 2
         IN <<[total_articles |-> Cardinality(Articles),
               total_communities |-> Cardinality(Communities),
               total_edges |-> total_edges,
               avg_degree |-> <<total_edges * 2, Cardinality(Articles)>>]>>

\* count(DISTINCT r)/2 over the REFERS_TO relationships inside community k
InternalEdges(k) ==
    Cardinality({e \in edges : member[e[1]] = k /\ member[e[2]] = k}) \div 2

\* the size property the bulk load stored on the Community
StoredSize(k) == k + 1

TopCommunityRows ==
    {[community_id |-> k, size |-> StoredSize(k), density |-> Density(k),
      article_count |-> Cardinality({a \in Articles : member[a] = k}),
      internal_edges |-> InternalEdges(k)] : k \in Communities}

TopCommunities(top_n) ==
    {Limit(rows, top_n) :
        rows \in OrderByDesc(TopCommunityRows, LAMBDA r : <<r.article_count, 1>>)}

TopArticleRows ==
    {[article_id |-> a, degree |-> Degree(a), community_id |-> member[a],
      target |-> a] : a \in Articles}

\* variant: top_articles_query without its LIMIT
TopArticlesUnlimited(top_n) ==
    OrderByDesc(TopArticleRows, LAMBDA r : <<r.degree, 1>>)

TopArticles(top_n) ==
    {Limit(rows, top_n) :
        rows \in OrderByDesc(TopArticleRows, LAMBDA r : <<r.degree, 1>>)}

SearchTerms == {<<"a">>, <<"B">>, <<"a", "b">>, <<"c">>}

\* one execute_query call of a library method, as logged in qcalls
QueryCall(query, fault, ok) == [query |-> query, fault |-> fault, ok |-> ok]

\* what a library call came to: its outcome, its result, its store calls
ServiceOutcome(o) ==
    /\ qoutcome' = o.outcome
    /\ qresult' = o.result
    /\ qcalls' = o.calls

RaiseWith(cs) == [outcome |-> "raise", result |-> NoResult, calls |-> cs]
ReturnWith(r, cs) == [outcome |-> "return", result |-> r, calls |-> cs]

\* what search_entities does: one query
SearchOutcomes(search_term, limit, fault) ==
    IF fault THEN {RaiseWith(<<QueryCall("search", TRUE, FALSE)>>)}
    ELSE {ReturnWith(r, <<QueryCall("search", FALSE, TRUE)>>) :
            r \in SearchEntities(search_term, limit)}

\* search_entities(search_term, limit)
SearchEntitiesCall ==
    /\ qpc = "idle"
    /\ phase = "running"
    /\ \E search_term \in SearchTerms, limit \in 1..MaxLimit, fault \in BOOLEAN :
        /\ qargs' = [search_term |-> search_term, limit |-> limit]
        /\ \E o \in SearchOutcomes(search_term, limit, fault) : ServiceOutcome(o)
    /\ qop' = "search_entities"
    /\ qpc' = "done"
    /\ UNCHANGED <<auxVars, graphVars, callVars, appVars>>

\* what get_recommendations does: one query, picked by the strategy
RecommendationOutcomes(article_id, limit, strategy, fault) ==
    LET query == RecommendationQuery(strategy)
        ok == ~fault /\ ~QueryRejected(query)
    IN IF ok
       THEN {[outcome |-> "return", result |-> r,
              calls |-> <<QueryCall(query, FALSE, TRUE)>>] :
                r \in RecommendReferences(article_id, limit)}
       ELSE {[outcome |-> "raise", result |-> NoResult,
              calls |-> <<QueryCall(query, fault, FALSE)>>]}

\* get_recommendations(article_id, limit, strategy), called directly
GetRecommendations ==
    /\ qpc = "idle"
    /\ phase = "running"
    /\ \E article_id \in Articles \cup {UnknownArticle}, limit \in 1..MaxLimit,
          strategy \in StrategyInputs, fault \in BOOLEAN :
        /\ qargs' = [article_id |-> article_id, limit |-> limit, strategy |-> strategy]
        /\ \E o \in RecommendationOutcomes(article_id, limit, strategy, fault) :
            /\ qoutcome' = o.outcome
            /\ qresult' = o.result
            /\ qcalls' = o.calls
    /\ qop' = "get_recommendations"
    /\ qpc' = "done"
    /\ UNCHANGED <<auxVars, graphVars, callVars, appVars>>

\* what get_analytics does: three queries; stats_query's first row is
\* read unguarded.  failing is the query that faults, 0 for none.
AnalyticsOutcomes(top_n, failing) ==
    IF failing = 1
    THEN {RaiseWith(<<QueryCall("stats", TRUE, FALSE)>>)}
    ELSE IF StatsRows = <<>>
    THEN {RaiseWith(<<QueryCall("stats", FALSE, TRUE)>>)}
    ELSE IF failing = 2
    THEN {RaiseWith(<<QueryCall("stats", FALSE, TRUE), QueryCall("top_comm", TRUE, FALSE)>>)}
    ELSE IF failing = 3
    THEN {RaiseWith(<<QueryCall("stats", FALSE, TRUE), QueryCall("top_comm", FALSE, TRUE),
                      QueryCall("top_articles", TRUE, FALSE)>>)}
    ELSE {ReturnWith([total_articles |-> StatsRows[1].total_articles,
                      total_communities |-> StatsRows[1].total_communities,
                      total_edges |-> StatsRows[1].total_edges,
                      avg_degree |-> StatsRows[1].avg_degree,
                      top_communities |-> tc,
                      top_articles |-> ta],
                     <<QueryCall("stats", FALSE, TRUE), QueryCall("top_comm", FALSE, TRUE),
                       QueryCall("top_articles", FALSE, TRUE)>>) :
            tc \in TopCommunities(top_n), ta \in TopArticles(top_n)}

\* get_analytics(top_n)
GetAnalytics ==
    /\ qpc = "idle"
    /\ phase = "running"
    /\ \E top_n \in 1..MaxLimit, failing \in 0..3 :
        /\ qargs' = [top_n |-> top_n]
        /\ \E o \in AnalyticsOutcomes(top_n, failing) : ServiceOutcome(o)
    /\ qop' = "get_analytics"
    /\ qpc' = "done"
    /\ UNCHANGED <<auxVars, graphVars, callVars, appVars>>

\* the paths of n REFERS_TO relationships, direction ignored, that start
\* at s and visit no Article twice, as node sequences
RECURSIVE PathsFrom(_, _)
PathsFrom(s, n) ==
    IF n = 0 THEN {<<s>>}
    ELSE UNION {{Append(p, b) :
                    b \in {x \in Neighbours(p[Len(p)]) :
                              \A i \in 1..Len(p) : p[i] # x}} :
                p \in PathsFrom(s, n - 1)}

PathsBetween(s, t, n) == {p \in PathsFrom(s, n) : p[Len(p)] = t}

\* shortestPath((source)-[:REFERS_TO*..max_depth]-(target)) for two
\* different Articles: the paths of the least length, none when the
\* target is further than max_depth
ShortestPaths(source_id, target_id, max_depth) ==
    LET lengths == {n \in 1..max_depth :
                       PathsBetween(source_id, target_id, n) # {}}
    IN IF lengths = {} THEN {}
       ELSE PathsBetween(source_id, target_id,
                         CHOOSE n \in lengths : \A m \in lengths : n <= m)

\* [node in nodes(path) | {id: ..., target: ..., community_id: ...}]
PathNodes(p) ==
    [i \in 1..Len(p) |-> [id |-> p[i], target |-> p[i], community_id |-> member[p[i]]]]

\* the dictionary find_shortest_path returns when the query has no row
NoPath == [path |-> <<>>, length |-> 0, exists |-> FALSE]

\* what find_shortest_path does: one query.  For source and target the
\* same Article shortestPath raises, or matches nothing when the store
\* runs with forbid_shortestpath_common_nodes off.
ShortestPathOutcomes(source_id, target_id, max_depth, fault, forbid_common_nodes) ==
    IF fault
    THEN {RaiseWith(<<QueryCall("shortest_path", TRUE, FALSE)>>)}
    ELSE IF source_id \notin Articles \/ target_id \notin Articles
    THEN {ReturnWith(NoPath, <<QueryCall("shortest_path", FALSE, TRUE)>>)}
    ELSE IF source_id = target_id /\ forbid_common_nodes
    THEN {RaiseWith(<<QueryCall("shortest_path", FALSE, FALSE)>>)}
    ELSE LET paths == IF source_id = target_id THEN {}
                      ELSE ShortestPaths(source_id, target_id, max_depth)
         IN IF paths = {}
            THEN {ReturnWith(NoPath, <<QueryCall("shortest_path", FALSE, TRUE)>>)}
            ELSE {ReturnWith([path |-> PathNodes(p), length |-> Len(p) - 1,
                              exists |-> TRUE],
                             <<QueryCall("shortest_path", FALSE, TRUE)>>) :
                    p \in paths}

\* find_shortest_path(source_id, target_id, max_depth)
FindShortestPath ==
    /\ qpc = "idle"
    /\ phase = "running"
    /\ \E source_id \in Articles \cup {UnknownArticle},
          target_id \in Articles \cup {UnknownArticle},
          max_depth \in 1..MaxDepth, fault \in BOOLEAN,
          forbid_common_nodes \in BOOLEAN :
        /\ qargs' = [source_id |-> source_id, target_id |-> target_id,
                     max_depth |-> max_depth]
        /\ \E o \in ShortestPathOutcomes(source_id, target_id, max_depth, fault,
                                         forbid_common_nodes) : ServiceOutcome(o)
    /\ qop' = "find_shortest_path"
    /\ qpc' = "done"
    /\ UNCHANGED <<auxVars, graphVars, callVars, appVars>>

\* a community_id that matches no Community
UnknownCommunity == 3

\* nodes_query: the Articles that belong to the Community
ExportNodeRows(community_id) ==
    {[id |-> a, target |-> a, community_id |-> member[a]] :
        a \in {b \in Articles : member[b] = community_id}}

\* edges_query with include_cross_edges: RETURN DISTINCT over every
\* REFERS_TO match that starts at a member, in either orientation
CrossEdgeRows(community_id) ==
    {[source |-> t[1], target |-> t[3], target_community |-> member[t[3]]] :
        t \in {u \in TraversalRows : member[u[1]] = community_id}}

\* the REFERS_TO matches between two members with id(a1) < id(a2)
InternalMatches(community_id) ==
    {t \in TraversalRows :
        /\ member[t[1]] = community_id
        /\ member[t[3]] = community_id
        /\ InternalId([label |-> "Article", key |-> t[1]])
              < InternalId([label |-> "Article", key |-> t[3]])}

\* the row edges_query returns for a match
EdgeRow(t) ==
    [source |-> t[1], target |-> t[3], target_community |-> member[t[3]]]

\* edges_query without include_cross_edges: one row per match, no
\* DISTINCT.  The rows come in no particular order: a bag of rows.
InternalEdgeBag(community_id) ==
    LET ms == InternalMatches(community_id)
    IN [r \in {EdgeRow(t) : t \in ms} |->
           Cardinality({t \in ms : EdgeRow(t) = r})]

\* the rows edges_query returns, as a bag
ExportEdgeBag(community_id, include_cross_edges) ==
    IF include_cross_edges
    THEN SetToBag(CrossEdgeRows(community_id))
    ELSE InternalEdgeBag(community_id)

\* what export_subgraph does: two queries.  failing is the query that
\* faults, 0 for none.
ExportSubgraphOutcomes(community_id, include_cross_edges, failing) ==
    IF failing = 1
    THEN {RaiseWith(<<QueryCall("nodes", TRUE, FALSE)>>)}
    ELSE IF failing = 2
    THEN {RaiseWith(<<QueryCall("nodes", FALSE, TRUE), QueryCall("edges", TRUE, FALSE)>>)}
    ELSE LET ns == SetToBag(ExportNodeRows(community_id))
             es == ExportEdgeBag(community_id, include_cross_edges)
         IN {ReturnWith([community_id |-> community_id,
                         nodes |-> ns,
                         edges |-> es,
                         node_count |-> BagCardinality(ns),
                         edge_count |-> BagCardinality(es)],
                        <<QueryCall("nodes", FALSE, TRUE),
                          QueryCall("edges", FALSE, TRUE)>>)}

\* export_subgraph(community_id, include_cross_edges)
ExportSubgraph ==
    /\ qpc = "idle"
    /\ phase = "running"
    /\ \E community_id \in Communities \cup {UnknownCommunity},
          include_cross_edges \in BOOLEAN, failing \in 0..2 :
        /\ qargs' = [community_id |-> community_id,
                     include_cross_edges |-> include_cross_edges]
        /\ \E o \in ExportSubgraphOutcomes(community_id, include_cross_edges, failing) :
              ServiceOutcome(o)
    /\ qop' = "export_subgraph"
    /\ qpc' = "done"
    /\ UNCHANGED <<auxVars, graphVars, callVars, appVars>>

(* -------------------------------- HTTP API ----------------------------- *)
\* str(e) of an exception the store raised: the engine's diagnostic text
Messages == {"Neo.ClientError.Statement.SyntaxError", "Neo.TransientError.General"}

\* str(e) of an exception the service code itself raised (an IndexError,
\* a ValueError)
PythonErrorText == "python error"

\* what str(e) may be for a library call that raised: the engine's text
\* when the store raised it
FailureTexts(o) ==
    IF \E i \in 1..Len(o.calls) : ~o.calls[i].ok THEN Messages
    ELSE {PythonErrorText}

\* None
None == [none |-> TRUE]

\* raise HTTPException(status_code, detail): the response carries the
\* status and {"detail": detail}; detail is kept as the parts of the
\* formatted text
HttpError(status_code, detail) == [status_code |-> status_code, detail |-> detail]

\* the text each router puts in front of str(e) in its except clause
FailurePrefix(endpoint) ==
    CASE endpoint = "POST /query" -> "Query execution failed: "
      [] endpoint = "POST /search" -> "Search failed: "
      [] endpoint = "GET /entities/{entity_id}" -> "Failed to retrieve entity: "
      [] endpoint = "GET /entities/{entity_id}/relationships"
            -> "Failed to retrieve relationships: "
      [] endpoint = "POST /pathfinding" -> "Pathfinding failed: "
      [] endpoint = "POST /recommendations" -> "Recommendation generation failed: "
      [] endpoint = "GET /analytics" -> "Analytics generation failed: "
      [] endpoint = "POST /subgraph/export" -> "Subgraph export failed: "
      [] endpoint = "GET /communities/{community_id}/stats"
            -> "Failed to retrieve community stats: "

\* except Exception as e: raise HTTPException(500, detail=f"<prefix>{str(e)}")
EndpointFailure(endpoint, text) == HttpError(500, <<FailurePrefix(endpoint), text>>)

\* general_exception_handler: the detail is str(exc) only with settings.debug
GeneralExceptionHandler(text) ==
    [status_code |-> 500, error |-> "InternalServerError",
     message |-> "An unexpected error occurred",
     detail |-> IF debug THEN text ELSE None]

\* the endpoint answers: the response is the outcome of the request
Respond(response, cs) ==
    /\ qoutcome' = IF response.status_code = 200 THEN "return" ELSE "raise"
    /\ qresult' = response
    /\ qcalls' = cs

\* the response to a library call made inside the try block of an
\* endpoint: the except clause when it raised, the response model built
\* from its result otherwise
EndpointResponses(endpoint, o, ok(_)) ==
    IF o.outcome = "raise"
    THEN {EndpointFailure(endpoint, text) : text \in FailureTexts(o)}
    ELSE {ok(o.result)}

\* POST /recommendations: the strategy is validated before the service is
\* looked up; any exception of the service call becomes a 500
RecommendationsEndpoint ==
    /\ qpc = "idle"
    /\ phase = "running"
    /\ \E article_id \in Articles \cup {UnknownArticle}, limit \in 1..MaxLimit,
          strategy \in StrategyInputs, fault \in BOOLEAN :
        /\ qargs' = [article_id |-> article_id, limit |-> limit, strategy |-> strategy]
        /\ IF StrategyInvalid(strategy)
           THEN Respond(HttpError(400,
                    <<"Strategy must be 'community', 'references', or 'hybrid'">>),
                    <<>>)
           ELSE \E o \in RecommendationOutcomes(article_id, limit, strategy, fault) :
                \E response \in EndpointResponses("POST /recommendations", o,
                        LAMBDA r : [status_code |-> 200, source_id |-> article_id,
                                    recommendations |-> r, count |-> Len(r)]) :
                    Respond(response, o.calls)
    /\ qop' = "POST /recommendations"
    /\ qpc' = "done"
    /\ UNCHANGED <<auxVars, graphVars, callVars, appVars>>

\* what driver.verify_connectivity() does: it returns, or raises a
\* Neo4jError (the server answered with an error, such as a rejected
\* login), or raises a DriverError (ServiceUnavailable: no server answers)
Probes == {"ok", "Neo4jError", "DriverError"}

\* verify_connectivity(): True, or False on Neo4jError; any other
\* exception propagates
VerifyConnectivity(probe) ==
    IF probe = "ok" THEN [raised |-> FALSE, value |-> TRUE]
    ELSE IF probe = "Neo4jError" THEN [raised |-> FALSE, value |-> FALSE]
    ELSE [raised |-> TRUE, value |-> FALSE]

\* GET /health; an exception of the handler goes to
\* general_exception_handler, which answers 500
HealthCheck ==
    /\ qpc = "idle"
    /\ phase = "running"
    /\ \E probe \in Probes :
        LET v == VerifyConnectivity(probe)
            db_status == IF v.value THEN "connected" ELSE "disconnected"
        IN /\ qargs' = [probe |-> probe]
           /\ IF v.raised
              THEN \E text \in Messages : Respond(GeneralExceptionHandler(text), <<>>)
              ELSE Respond([status_code |-> 200,
                            status |-> IF db_status = "connected"
                                       THEN "healthy" ELSE "degraded",
                            database |-> db_status], <<>>)
    /\ qop' = "GET /health"
    /\ qpc' = "done"
    /\ UNCHANGED <<auxVars, graphVars, callVars, appVars>>

\* variant: close() drops its driver and has no guard, so a second call
\* fails on the missing driver
ServiceCloseUnguarded(by) ==
    /\ closes' = Append(closes, [by |-> by, before |-> pool, after |-> "closed",
                                 raised |-> pool = "closed"])
    /\ pool' = "closed"

\* close(): self.driver is set in __init__ and never cleared, so every
\* call reaches driver.close(), which releases the pool and does nothing
\* on a pool already released
ServiceClose(by) ==
    /\ closes' = Append(closes, [by |-> by, before |-> pool, after |-> "closed",
                                 raised |-> FALSE])
    /\ pool' = "closed"

\* lifespan after its yield: the application shuts down
Shutdown ==
    /\ phase = "running"
    /\ phase' = "stopped"
    /\ ServiceClose("lifespan")
    /\ UNCHANGED <<auxVars, graphVars, callVars, queryVars>>

\* a further close() on the service after the shutdown
CloseAgain ==
    /\ phase = "stopped"
    /\ Len(closes) < MaxCloses
    /\ ServiceClose("caller")
    /\ UNCHANGED <<auxVars, graphVars, callVars, queryVars, phase>>

NextQuery ==
    \/ SearchEntitiesCall
    \/ GetRecommendations
    \/ GetAnalytics
    \/ RecommendationsEndpoint
    \/ ExportSubgraph
    \/ FindShortestPath
    \/ HealthCheck
    \/ Shutdown
    \/ CloseAgain

\* the application on any of the stored graphs: it serves one request,
\* a library call or an endpoint, and shuts down
SpecQuery == Init /\ [][NextQuery]_vars

(* ------------------------------ HTTP endpoints ------------------------- *)
DigitChars == <<"0", "1", "2", "3", "4", "5", "6", "7", "8", "9">>

\* str(n) of a non-negative integer
RECURSIVE Str(_)
Str(n) ==
    IF n < 10 THEN <<DigitChars[n + 1]>>
    ELSE Str(n \div 10) \o <<DigitChars[(n % 10) + 1]>>

\* whether int(s) accepts the text: decimal digits only
IsInteger(s) ==
    /\ Len(s) > 0
    /\ \A i \in 1..Len(s) : \E d \in 0..9 : DigitChars[d + 1] = s[i]

\* int(s) of a text of decimal digits
RECURSIVE ParseInt(_)
ParseInt(s) ==
    LET last == CHOOSE d \in 0..9 : DigitChars[d + 1] = s[Len(s)]
    IN IF Len(s) = 1 THEN last
       ELSE ParseInt(SubSeq(s, 1, Len(s) - 1)) * 10 + last

\* the entity_id path parameters tried: the first Article, the first
\* Community, two ids no node has, an id with a leading zero, and a text
\* that is no number
EntityIds == {<<"1">>, Str(NumArticles + 1), <<"0">>, <<"4", "0">>, <<"0", "2">>, <<"x">>}

\* the queries POST /query is given: three the engine accepts (one record,
\* one record per Article, no record) and one it rejects
RawQueries ==
    {"RETURN 1 as test",
     "MATCH (a:Article) RETURN a.id as id ORDER BY id",
     "MATCH (a:Article {id: 0}) RETURN a.id as id",
     "INVALID CYPHER QUERY"}

Rejected(query) == query = "INVALID CYPHER QUERY"

\* [record.data() for record in result]
RawQueryRows(query) ==
    CASE query = "RETURN 1 as test" -> <<[test |-> 1]>>
      [] query = "MATCH (a:Article) RETURN a.id as id ORDER BY id"
            -> [i \in 1..NumArticles |-> [id |-> i]]
      [] OTHER -> <<>>

\* execute_query(query, parameters) on a query of the caller
RawQueryOutcomes(query, fault) ==
    IF fault THEN {RaiseWith(<<QueryCall(query, TRUE, FALSE)>>)}
    ELSE IF Rejected(query) THEN {RaiseWith(<<QueryCall(query, FALSE, FALSE)>>)}
    ELSE {ReturnWith(RawQueryRows(query), <<QueryCall(query, FALSE, TRUE)>>)}

\* variant: the except clause of POST /query answers 500
QueryFailureServerError(text) == HttpError(500, <<FailurePrefix("POST /query"), text>>)

\* except Exception as e: raise HTTPException(400, "Query execution failed: ...")
QueryFailure(text) == HttpError(400, <<FailurePrefix("POST /query"), text>>)

\* POST /query
ExecuteQueryEndpoint ==
    /\ qpc = "idle"
    /\ phase = "running"
    /\ \E query \in RawQueries, fault \in BOOLEAN :
        /\ qargs' = [query |-> query]
        /\ \E o \in RawQueryOutcomes(query, fault) :
              IF o.outcome = "raise"
              THEN \E text \in FailureTexts(o) : Respond(QueryFailure(text), o.calls)
              ELSE Respond([status_code |-> 200, data |-> o.result,
                            count |-> Len(o.result)], o.calls)
    /\ qop' = "POST /query"
    /\ qpc' = "done"
    /\ UNCHANGED <<auxVars, graphVars, callVars, appVars>>

\* EntityNode(id=str(result["id"]), labels=..., properties=...)
EntityNode(r) == [id |-> Str(r.id), labels |-> r.labels, properties |-> r.properties]

\* POST /search
SearchEndpoint ==
    /\ qpc = "idle"
    /\ phase = "running"
    /\ \E search_term \in SearchTerms, limit \in 1..MaxLimit, fault \in BOOLEAN :
        /\ qargs' = [search_term |-> search_term, limit |-> limit]
        /\ \E o \in SearchOutcomes(search_term, limit, fault) :
           \E response \in EndpointResponses("POST /search", o,
                   LAMBDA r : [status_code |-> 200,
                               body |-> [i \in 1..Len(r) |-> EntityNode(r[i])]]) :
               Respond(response, o.calls)
    /\ qop' = "POST /search"
    /\ qpc' = "done"
    /\ UNCHANGED <<auxVars, graphVars, callVars, appVars>>

\* the rows of MATCH (n) WHERE id(n) = $entity_id
EntityRows(id) ==
    {[id |-> InternalId(n), labels |-> {n.label},
      properties |-> [name |-> NodeName(n), title |-> NodeTitle(n)]] :
        n \in {m \in Nodes : InternalId(m) = id}}

\* what get_entity_by_id does: int(entity_id), which raises ValueError on
\* a text that is no number, then one query; results[0] or None
EntityOutcomes(entity_id, fault) ==
    IF ~IsInteger(entity_id) THEN {RaiseWith(<<>>)}
    ELSE IF fault THEN {RaiseWith(<<QueryCall("entity", TRUE, FALSE)>>)}
    ELSE LET results == EntityRows(ParseInt(entity_id))
         IN IF results = {}
            THEN {ReturnWith(None, <<QueryCall("entity", FALSE, TRUE)>>)}
            ELSE {ReturnWith(r, <<QueryCall("entity", FALSE, TRUE)>>) : r \in results}

\* get_entity_by_id(entity_id)
GetEntityById ==
    /\ qpc = "idle"
    /\ phase = "running"
    /\ \E entity_id \in EntityIds, fault \in BOOLEAN :
        /\ qargs' = [entity_id |-> entity_id]
        /\ \E o \in EntityOutcomes(entity_id, fault) : ServiceOutcome(o)
    /\ qop' = "get_entity_by_id"
    /\ qpc' = "done"
    /\ UNCHANGED <<auxVars, graphVars, callVars, appVars>>

\* variant: without the except HTTPException clause the 404 raised inside
\* the try block is caught by except Exception and answered as a 500
ReraiseHttpExceptionAsFailure(endpoint, e) == EndpointFailure(endpoint, e.detail)

\* except HTTPException: raise
ReraiseHttpException(endpoint, e) == e

\* GET /entities/{entity_id}
GetEntityEndpoint ==
    /\ qpc = "idle"
    /\ phase = "running"
    /\ \E entity_id \in EntityIds, fault \in BOOLEAN :
        /\ qargs' = [entity_id |-> entity_id]
        /\ \E o \in EntityOutcomes(entity_id, fault) :
           \E response \in EndpointResponses("GET /entities/{entity_id}", o,
                   LAMBDA r :
                       IF r = None
                       THEN ReraiseHttpException("GET /entities/{entity_id}",
                                HttpError(404, <<"Entity with ID ", entity_id,
                                                 " not found">>))
                       ELSE [status_code |-> 200] @@ EntityNode(r)) :
               Respond(response, o.calls)
    /\ qop' = "GET /entities/{entity_id}"
    /\ qpc' = "done"
    /\ UNCHANGED <<auxVars, graphVars, callVars, appVars>>

\* every relationship of the store, with the ids of its end nodes
StoredRelationships ==
    {[type |-> "REFERS_TO", start |-> e[1], end |-> e[2]] : e \in edges}
        \cup {[type |-> "BELONGS_TO", start |-> a, end |-> NumArticles + member[a]] :
                a \in {b \in Articles : member[b] # 0}}

\* id(r)
RelationshipId(r) ==
    IF r.type = "REFERS_TO" THEN r.start * (NumArticles + 1) + r.end
    ELSE (NumArticles + 1) * (NumArticles + 1) + r.start

Directions == {"incoming", "outgoing", "both"}

\* the rows of the query get_entity_relationships picks for the direction
RelationshipRows(id, direction) ==
    {[id |-> RelationshipId(r), type |-> r.type, start_node_id |-> r.start,
      end_node_id |-> r.end] :
        r \in {q \in StoredRelationships :
                  CASE direction = "outgoing" -> q.start = id
                    [] direction = "incoming" -> q.end = id
                    [] OTHER -> q.start = id \/ q.end = id}}

\* what get_entity_relationships does: int(entity_id), then one query
RelationshipOutcomes(entity_id, direction, fault) ==
    IF ~IsInteger(entity_id) THEN {RaiseWith(<<>>)}
    ELSE IF fault THEN {RaiseWith(<<QueryCall("relationships", TRUE, FALSE)>>)}
    ELSE {ReturnWith(RelationshipRows(ParseInt(entity_id), direction),
                     <<QueryCall("relationships", FALSE, TRUE)>>)}

\* Relationship(id=str(...), type=..., start_node_id=str(...), end_node_id=str(...))
RelationshipModel(r) ==
    [id |-> Str(r.id), type |-> r.type, start_node_id |-> Str(r.start_node_id),
     end_node_id |-> Str(r.end_node_id)]

\* GET /entities/{entity_id}/relationships: the direction is validated
\* before the service is looked up
RelationshipsEndpoint ==
    /\ qpc = "idle"
    /\ phase = "running"
    /\ \E entity_id \in EntityIds, direction \in Directions \cup {"sideways"},
          fault \in BOOLEAN :
        /\ qargs' = [entity_id |-> entity_id, direction |-> direction]
        /\ IF direction \notin Directions
           THEN Respond(HttpError(400,
                    <<"Direction must be 'incoming', 'outgoing', or 'both'">>), <<>>)
           ELSE \E o \in RelationshipOutcomes(entity_id, direction, fault) :
                \E response \in EndpointResponses(
                        "GET /entities/{entity_id}/relationships", o,
                        LAMBDA rows : [status_code |-> 200,
                                       body |-> {RelationshipModel(r) : r \in rows}]) :
                    Respond(response, o.calls)
    /\ qop' = "GET /entities/{entity_id}/relationships"
    /\ qpc' = "done"
    /\ UNCHANGED <<auxVars, graphVars, callVars, appVars>>

\* POST /pathfinding
PathfindingEndpoint ==
    /\ qpc = "idle"
    /\ phase = "running"
    /\ \E source_id \in Articles \cup {UnknownArticle},
          target_id \in Articles \cup {UnknownArticle},
          max_depth \in 1..MaxDepth, fault \in BOOLEAN,
          forbid_common_nodes \in BOOLEAN :
        /\ qargs' = [source_id |-> source_id, target_id |-> target_id,
                     max_depth |-> max_depth]
        /\ \E o \in ShortestPathOutcomes(source_id, target_id, max_depth, fault,
                                         forbid_common_nodes) :
           \E response \in EndpointResponses("POST /pathfinding", o,
                   LAMBDA r : [status_code |-> 200, path |-> r.path,
                               length |-> r.length, exists |-> r.exists]) :
               Respond(response, o.calls)
    /\ qop' = "POST /pathfinding"
    /\ qpc' = "done"
    /\ UNCHANGED <<auxVars, graphVars, callVars, appVars>>

\* CommunityStats(**row): the fields of the response model, any other
\* column of the row dropped
CommunityStats(r) ==
    [community_id |-> r.community_id, size |-> r.size, density |-> r.density,
     internal_edges |-> r.internal_edges]

\* GET /analytics
AnalyticsEndpoint ==
    /\ qpc = "idle"
    /\ phase = "running"
    /\ \E top_n \in 1..MaxLimit, failing \in 0..3 :
        /\ qargs' = [top_n |-> top_n]
        /\ \E o \in AnalyticsOutcomes(top_n, failing) :
           \E response \in EndpointResponses("GET /analytics", o,
                   LAMBDA r :
                       [status_code |-> 200,
                        total_articles |-> r.total_articles,
                        total_communities |-> r.total_communities,
                        total_edges |-> r.total_edges,
                        avg_degree |-> r.avg_degree,
                        top_communities |->
                            [i \in 1..Len(r.top_communities) |->
                                CommunityStats(r.top_communities[i])],
                        top_articles |-> r.top_articles]) :
               Respond(response, o.calls)
    /\ qop' = "GET /analytics"
    /\ qpc' = "done"
    /\ UNCHANGED <<auxVars, graphVars, callVars, appVars>>

\* POST /subgraph/export
SubgraphEndpoint ==
    /\ qpc = "idle"
    /\ phase = "running"
    /\ \E community_id \in Communities \cup {UnknownCommunity},
          include_cross_edges \in BOOLEAN, failing \in 0..2 :
        /\ qargs' = [community_id |-> community_id,
                     include_cross_edges |-> include_cross_edges]
        /\ \E o \in ExportSubgraphOutcomes(community_id, include_cross_edges, failing) :
           \E response \in EndpointResponses("POST /subgraph/export", o,
                   LAMBDA r : [status_code |-> 200] @@ r) :
               Respond(response, o.calls)
    /\ qop' = "POST /subgraph/export"
    /\ qpc' = "done"
    /\ UNCHANGED <<auxVars, graphVars, callVars, appVars>>

\* the query of the community statistics endpoint: the row of the
\* Community, none when no Community has the id
CommunityStatsOutcomes(community_id, fault) ==
    IF fault THEN {RaiseWith(<<QueryCall("community_stats", TRUE, FALSE)>>)}
    ELSE {ReturnWith({r \in TopCommunityRows : r.community_id = community_id},
                     <<QueryCall("community_stats", FALSE, TRUE)>>)}

\* GET /communities/{community_id}/stats
CommunityStatsEndpoint ==
    /\ qpc = "idle"
    /\ phase = "running"
    /\ \E community_id \in Communities \cup {UnknownCommunity}, fault \in BOOLEAN :
        /\ qargs' = [community_id |-> community_id]
        /\ \E o \in CommunityStatsOutcomes(community_id, fault) :
           \E response \in EndpointResponses("GET /communities/{community_id}/stats", o,
                   LAMBDA results :
                       IF results = {}
                       THEN ReraiseHttpException(
                                "GET /communities/{community_id}/stats",
                                HttpError(404, <<"Community with ID ", Str(community_id),
                                                 " not found">>))
                       ELSE [status_code |-> 200]
                                @@ CommunityStats(CHOOSE r \in results : TRUE)) :
               Respond(response, o.calls)
    /\ qop' = "GET /communities/{community_id}/stats"
    /\ qpc' = "done"
    /\ UNCHANGED <<auxVars, graphVars, callVars, appVars>>

\* the endpoints that answer from the graph store through a service call
DomainEndpoints ==
    {"POST /search", "GET /entities/{entity_id}",
     "GET /entities/{entity_id}/relationships", "POST /pathfinding",
     "POST /recommendations", "GET /analytics", "POST /subgraph/export",
     "GET /communities/{community_id}/stats"}

\* the application with either setting of debug, on any of the stored
\* graphs without the plugin
InitApi ==
    /\ debug \in BOOLEAN
    /\ InitGateway
    /\ InitFetch
    /\ gds = FALSE
    /\ proj = [n \in ProjectionNames |-> 0]
    /\ edges \in EdgeSets
    /\ member \in MemberSets
    /\ engine = CHOOSE e \in Engines : TRUE
    /\ InitCallers
    /\ InitQuery
    /\ InitApp

NextApi ==
    \/ ExecuteQueryEndpoint
    \/ SearchEndpoint
    \/ GetEntityById
    \/ GetEntityEndpoint
    \/ RelationshipsEndpoint
    \/ PathfindingEndpoint
    \/ RecommendationsEndpoint
    \/ AnalyticsEndpoint
    \/ SubgraphEndpoint
    \/ CommunityStatsEndpoint
    \/ HealthCheck

\* the router serves one request
SpecApi == InitApi /\ [][NextApi]_vars

(* --------------------------- session gateway -------------------------- *)
GatewayMethods == {"execute_query", "execute_write_query"}

\* with self.driver.session() as session: the driver makes a new session
\* for this call
OpenSession(c) ==
    /\ gpc[c] = "idle"
    /\ Len(session_log) < MaxSessions
    /\ \E method \in GatewayMethods :
        LET s == Len(session_log) + 1
            n == gcall[c].call + 1
        IN /\ sessions' = sessions \cup {s}
           /\ session_log' = Append(session_log, [session |-> s, by |-> c, call |-> n])
           /\ gcall' = [gcall EXCEPT ![c] =
                  [method |-> method, call |-> n, session |-> s, attempts |-> 0,
                   outcome |-> "none"]]
    /\ gpc' = [gpc EXCEPT ![c] = "in_session"]
    /\ UNCHANGED <<debug, fetchVars, graphVars, callVars, queryVars, appVars>>

\* variant: the session is closed by a call placed after the records were
\* read, which an exception skips
SessionsAfterExitOnSuccess(s, raised) ==
    IF raised THEN sessions ELSE sessions \ {s}

\* leaving the with block closes the session, on return and on exception
SessionsAfterExit(s, raised) == sessions \ {s}

\* the with block ends and the call returns its records or raises
ExitSession(c, raised) ==
    /\ sessions' = SessionsAfterExit(gcall[c].session, raised)
    /\ gcall' = [gcall EXCEPT ![c].attempts = @ + 1,
                              ![c].outcome = IF raised THEN "raise" ELSE "return"]
    /\ gpc' = [gpc EXCEPT ![c] = "idle"]
    /\ UNCHANGED <<debug, fetchVars, session_log, graphVars, callVars, queryVars, appVars>>

\* execute_query: session.run and the reading of its records
ExecuteQuery(c) ==
    /\ gpc[c] = "in_session"
    /\ gcall[c].method = "execute_query"
    /\ \E raised \in BOOLEAN : ExitSession(c, raised)

\* execute_write_query: session.execute_write runs the unit of work again,
\* in the same session, when the transaction fails for a transient reason
RetryTransaction(c) ==
    /\ gpc[c] = "in_session"
    /\ gcall[c].method = "execute_write_query"
    /\ gcall[c].attempts + 1 < MaxAttempts
    /\ gcall' = [gcall EXCEPT ![c].attempts = @ + 1]
    /\ UNCHANGED <<debug, fetchVars, sessions, gpc, session_log, graphVars,
                   callVars, queryVars, appVars>>

\* execute_write_query: the unit of work commits, or fails for good
ExecuteWriteQuery(c) ==
    /\ gpc[c] = "in_session"
    /\ gcall[c].method = "execute_write_query"
    /\ \E raised \in BOOLEAN : ExitSession(c, raised)

GatewayStep(c) ==
    \/ OpenSession(c)
    \/ ExecuteQuery(c)
    \/ RetryTransaction(c)
    \/ ExecuteWriteQuery(c)

NextGateway == \E c \in Callers : GatewayStep(c)

\* two request handlers that call execute_query and execute_write_query
SpecGateway == InitPair /\ [][NextGateway]_vars

(* ------------------------- Wikidata retrieval ------------------------- *)
FetchArguments == [limit : 1..2, max_results : 1..3, retries : 1..2]

\* if r.status_code in (429, 502, 503, 504)
BusyStatus == {429, 502, 503, 504}

\* what one requests.get can come to: no response (a timeout), or a
\* response with a status and, for 200, the rows of the batch
Responses(limit) ==
    {[status |-> 0, rows |-> 0]}
        \cup [status : {429, 503, 500}, rows : {0}]
        \cup [status : {200}, rows : 0..limit]

\* fetch_all_data(limit, max_results, retries) up to the for loop of its
\* first batch
FetchAllData ==
    /\ fpc = "idle"
    /\ \E a \in FetchArguments : fargs' = a
    /\ offset' = 0
    /\ all_rows' = 0
    /\ attempt' = 0
    /\ fpc' = "request"
    /\ UNCHANGED <<data, requests, data_reads, foutcome>>
    /\ UNCHANGED <<debug, gatewayVars, graphVars, callVars, queryVars, appVars>>

FetchReturn ==
    /\ fpc' = "done"
    /\ foutcome' = "return"

\* the next attempt of the for loop, or its end when range(retries) is
\* used up
NextAttempt ==
    /\ attempt' = attempt + 1
    /\ fpc' = IF attempt + 1 < fargs.retries THEN "request" ELSE "check"
    /\ UNCHANGED foutcome

\* one pass of the for body: the request and what is done with its answer
Request ==
    /\ fpc = "request"
    /\ Len(requests) < MaxRequests
    /\ requests' = Append(requests, offset)
    /\ \E r \in Responses(fargs.limit) :
        IF r.status \in BusyStatus
        THEN \* sleep, continue
             /\ NextAttempt
             /\ UNCHANGED <<offset, all_rows, data>>
        ELSE IF r.status # 200
        THEN \* requests.get or raise_for_status raised
             /\ IF attempt = fargs.retries - 1
                THEN FetchReturn /\ UNCHANGED attempt
                ELSE NextAttempt
             /\ UNCHANGED <<offset, all_rows, data>>
        ELSE /\ data' = [assigned |-> TRUE, len |-> r.rows, of |-> offset]
             /\ IF r.rows = 0
                THEN \* if not data: return
                     /\ FetchReturn
                     /\ UNCHANGED <<offset, all_rows, attempt>>
                ELSE \* the rows are kept, offset += limit, break
                     /\ all_rows' = all_rows + r.rows
                     /\ offset' = offset + fargs.limit
                     /\ fpc' = "check"
                     /\ UNCHANGED <<attempt, foutcome>>
    /\ UNCHANGED <<fargs, data_reads>>
    /\ UNCHANGED <<debug, gatewayVars, graphVars, callVars, queryVars, appVars>>

\* after the for loop: if len(data) < limit: break, and the while test.
\* Reading data before its first assignment raises UnboundLocalError.
CheckBatch ==
    /\ fpc = "check"
    /\ data_reads' = data_reads \cup
           {[assigned |-> data.assigned, of |-> data.of,
             batch |-> requests[Len(requests)]]}
    /\ IF ~data.assigned
       THEN /\ fpc' = "done"
            /\ foutcome' = "raise"
            /\ UNCHANGED attempt
       ELSE IF data.len < fargs.limit \/ all_rows >= fargs.max_results
       THEN FetchReturn /\ UNCHANGED attempt
       ELSE /\ attempt' = 0
            /\ fpc' = "request"
            /\ UNCHANGED foutcome
    /\ UNCHANGED <<fargs, offset, all_rows, data, requests>>
    /\ UNCHANGED <<debug, gatewayVars, graphVars, callVars, queryVars, appVars>>

NextFetch ==
    \/ FetchAllData
    \/ Request
    \/ CheckBatch

\* one run of fetch_all_data against a server that answers as it likes
SpecFetch == InitPair /\ [][NextFetch]_vars

(* ------------------------------ properties ---------------------------- *)
Issued(c, op) == \E i \in 1..Len(calls[c]) : calls[c][i].op = op
Failed(c, op) == \E i \in 1..Len(calls[c]) : calls[c][i].op = op /\ ~calls[c][i].ok
Returned(c, k, p) ==
    pc[c] = "done" /\ outcome[c] = "return" /\ kind[c] = k /\ path[c] = p

\* C1: when the projection-creation query or the algorithm query of a
\* run_* call fails, the call goes to its fallback and the caller sees an
\* error only if the fallback's own queries fail.
C1_FailureAbsorbed ==
    \A c \in Callers :
        (pc[c] = "done" /\ (Failed(c, "create") \/ Failed(c, "stream")))
            => /\ Issued(c, "fallback")
               /\ outcome[c] = "raise"
                      => (Failed(c, "fallback") \/ Failed(c, "count"))

\* C2: every call that issued the projection-creation query has issued a
\* projection drop after it by the time it is over.
C2_TeardownOnEveryPath ==
    \A c \in Callers :
        (pc[c] = "done" /\ Issued(c, "create"))
            => \E i, j \in 1..Len(calls[c]) :
                   i < j /\ calls[c][i].op = "create" /\ calls[c][j].op = "drop"

DropFaulted(c) ==
    \E i \in 1..Len(calls[c]) :
        calls[c][i].op = "drop" /\ ~calls[c][i].ok /\ calls[c][i].present

Entries(c) ==
    IF kind[c] = "pagerank" THEN result[c].results
    ELSE IF kind[c] = "louvain" THEN result[c].communities
    ELSE result[c].similar_articles

\* C4: with two calls of the same endpoint in flight, every returned result
\* was computed from a query that got the caller's own parameters: it
\* respects the caller's own limit and names the caller's own source.
C4_OwnParameters ==
    \A c \in Callers :
        (pc[c] = "done" /\ outcome[c] = "return" /\ path[c] # "short")
            => /\ computed_with[c] = req[c]
               /\ kind[c] # "louvain" => Len(Entries(c)) <= req[c].limit
               /\ kind[c] = "similarity"
                      => result[c].source_article_id = req[c].article_id

\* both calls ran natively with different parameters, and the second call
\* dropped the projection under the first
C4_Witness ==
    /\ Returned(1, kind[1], "native") /\ Returned(2, kind[2], "native")
    /\ req[1] # req[2]
    /\ \E i \in 1..Len(calls[1]) :
           calls[1][i].op = "drop" /\ i > 1 /\ ~calls[1][i].present

TopLevelKeys(k) ==
    IF k = "pagerank" THEN {"total_nodes", "results", "execution_time_ms"}
    ELSE IF k = "louvain"
    THEN {"total_communities", "modularity", "communities", "execution_time_ms"}
    ELSE {"source_article_id", "source_article_title", "similar_articles",
          "execution_time_ms"}

EntryKeys(k) ==
    IF k = "pagerank" THEN {"article_id", "article_title", "score", "rank"}
    ELSE IF k = "louvain" THEN {"community_id", "size", "modularity"}
    ELSE {"article_id", "article_title", "similarity_score", "common_neighbors"}

\* C5: a result returned by the native path and one returned by the
\* fallback path of the same algorithm have the same top-level keys and the
\* same keys in every entry, namely those the response models name.
C5_SameShape ==
    \A c \in Callers :
        (pc[c] = "done" /\ outcome[c] = "return" /\ path[c] \in {"native", "fallback"})
            => /\ DOMAIN result[c] = TopLevelKeys(kind[c])
               /\ \A i \in 1..Len(Entries(c)) :
                      DOMAIN Entries(c)[i] = EntryKeys(kind[c])

\* a fallback returned at least one entry
C5_Witness ==
    /\ Returned(1, "pagerank", "fallback")
    /\ Len(Entries(1)) > 0

\* the sum of the REFERS_TO degrees of all Articles
TotalDegree == SumOver(Articles, [a \in Articles |-> Degree(a)])

\* C6: in a graph with at least one REFERS_TO relationship, every entry the
\* PageRank fallback returns has score = degree / sum of all degrees.
C6_FallbackScoreIsDegreeShare ==
    \A c \in Callers :
        (Returned(c, "pagerank", "fallback") /\ TotalDegree > 0)
            => \A i \in 1..Len(Entries(c)) :
                   FloatEqual(Entries(c)[i].score,
                              <<Degree(Entries(c)[i].article_id), TotalDegree>>)

\* the entries of a PageRank result carry rank 1..n and no entry is
\* followed by one with a greater score
RankedDescending(rs) ==
    /\ \A i \in 1..Len(rs) : rs[i].rank = i
    /\ \A i, j \in 1..Len(rs) : i < j => ~FloatGreater(rs[j].score, rs[i].score)

\* C7 as stated: PageRank results are in descending score order with rank
\* = position, and ties are broken consistently: two calls that take the
\* same path with the same limit on the same graph return the same entries
\* in the same order.
C7_DescendingConsistentTies ==
    \A c, d \in Callers :
        (pc[c] = "done" /\ outcome[c] = "return" /\ kind[c] = "pagerank"
         /\ pc[d] = "done" /\ outcome[d] = "return" /\ kind[d] = "pagerank")
            => /\ RankedDescending(Entries(c))
               /\ (path[c] = path[d] /\ req[c].limit = req[d].limit)
                      => Entries(c) = Entries(d)

\* C7 amended: on both paths no entry of a PageRank result is followed by
\* one with a greater score and the entry at position i carries rank i;
\* equal scores come in whatever order the store returns them.
C7_RankedDescending ==
    \A c \in Callers :
        (pc[c] = "done" /\ outcome[c] = "return" /\ kind[c] = "pagerank")
            => RankedDescending(Entries(c))

\* a PageRank result of two entries whose scores tie in the store's
\* ordering: neither sorts before the other
C7_Witness ==
    \E c \in Callers :
        /\ pc[c] = "done" /\ outcome[c] = "return" /\ kind[c] = "pagerank"
        /\ Len(Entries(c)) >= 2
        /\ ~CypherLess(Entries(c)[1].score, Entries(c)[2].score)
        /\ ~CypherLess(Entries(c)[2].score, Entries(c)[1].score)

\* C9: run_node_similarity for an article_id that matches no Article makes
\* the source lookup and no other store call, and returns no similar
\* articles and execution_time_ms = 0.
C9_ShortCircuit ==
    \A c \in Callers :
        (pc[c] = "done" /\ kind[c] = "similarity" /\ req[c].article_id \notin Articles)
            => /\ Len(calls[c]) = 1
               /\ calls[c][1].op = "lookup"
               /\ outcome[c] = "return"
                      => /\ result[c].similar_articles = <<>>
                         /\ result[c].execution_time_ms = 0

\* the call returned for an unknown source while a projection was left over
C9_Witness ==
    /\ pc[1] = "done" /\ kind[1] = "similarity" /\ outcome[1] = "return"
    /\ req[1].article_id \notin Articles
    /\ proj[ProjectionName("similarity")] = Prior

\* C10 as stated: every entry of a native similarity result has
\* common_neighbors = round(similarity_score * 10).
C10_CommonNeighborsRounded ==
    \A c \in Callers :
        Returned(c, "similarity", "native")
            => \A i \in 1..Len(Entries(c)) :
                   Entries(c)[i].common_neighbors =
                       RoundHalfEven(Entries(c)[i].similarity_score[1] * 10,
                                     Entries(c)[i].similarity_score[2])

\* C10 amended: every entry of a native similarity result has
\* common_neighbors = similarity_score * 10 truncated to an integer, the
\* largest n with n <= similarity_score * 10.
C10_CommonNeighborsTruncated ==
    \A c \in Callers :
        Returned(c, "similarity", "native")
            => \A i \in 1..Len(Entries(c)) :
                   LET e == Entries(c)[i]
                   IN /\ e.common_neighbors * e.similarity_score[2]
                             <= e.similarity_score[1] * 10
                      /\ (e.common_neighbors + 1) * e.similarity_score[2]
                             > e.similarity_score[1] * 10

\* a native entry whose similarity_score * 10 is not a whole number
C10_Witness ==
    /\ Returned(1, "similarity", "native")
    /\ \E i \in 1..Len(Entries(1)) :
           (Entries(1)[i].similarity_score[1] * 10) % Entries(1)[i].similarity_score[2] # 0

\* C8: search_entities and get_recommendations return at most `limit`
\* entries, and get_analytics at most `top_n` top_communities and at most
\* `top_n` top_articles.
C8_LimitsRespected ==
    (qpc = "done" /\ qoutcome = "return")
        => /\ qop = "search_entities" => Len(qresult) <= qargs.limit
           /\ qop = "get_recommendations" => Len(qresult) <= qargs.limit
           /\ qop = "POST /recommendations"
                  => Len(qresult.recommendations) <= qargs.limit
           /\ qop = "get_analytics"
                  => /\ Len(qresult.top_communities) <= qargs.top_n
                     /\ Len(qresult.top_articles) <= qargs.top_n

\* a top_articles list cut short by top_n
C8_Witness ==
    /\ qpc = "done" /\ qoutcome = "return" /\ qop = "get_analytics"
    /\ Len(qresult.top_articles) = qargs.top_n
    /\ Cardinality(TopArticleRows) > qargs.top_n

\* C11: every article x that _node_similarity_fallback returns for source s
\* has common_neighbors = |N(s) \cap N(x)| and similarity_score =
\* |N(s) \cap N(x)| / |N(s) \cup N(x)|, N being the REFERS_TO neighbours in
\* either direction; x is not s and not a neighbour of s, its score is at
\* least similarity_cutoff, and the entries come in descending score order.
C11_FallbackIsExactJaccard ==
    \A c \in Callers :
        Returned(c, "similarity", "fallback") =>
            LET s == req[c].article_id
                N(a) == {b \in Articles : <<a, b>> \in edges \/ <<b, a>> \in edges}
                rs == result[c].similar_articles
            IN /\ \A i \in 1..Len(rs) :
                    LET x == rs[i].article_id
                        inter == Cardinality(N(s) \cap N(x))
                        union == Cardinality(N(s) \cup N(x))
                    IN /\ x \in Articles \ ({s} \cup N(s))
                       /\ rs[i].common_neighbors = inter
                       /\ rs[i].similarity_score[2] # 0
                       /\ rs[i].similarity_score[1] * union
                              = inter * rs[i].similarity_score[2]
                       /\ rs[i].similarity_score[1] * 100
                              >= req[c].similarity_cutoff * rs[i].similarity_score[2]
               /\ \A i, j \in 1..Len(rs) :
                    i < j => ~FloatGreater(rs[j].similarity_score,
                                           rs[i].similarity_score)

\* the fallback returned two articles of different scores while the
\* source has a neighbour it does not share with one of them
C11_Witness ==
    \E c \in Callers :
        /\ Returned(c, "similarity", "fallback")
        /\ Len(result[c].similar_articles) = 2
        /\ FloatGreater(result[c].similar_articles[1].similarity_score,
                        result[c].similar_articles[2].similarity_score)
        /\ result[c].similar_articles[2].common_neighbors
               < Cardinality(Neighbours(req[c].article_id))
\* C12: _louvain_fallback returns only Communities with at least one
\* BELONGS_TO member, each once and with size equal to its member count;
\* every Article belonging to at most one Community, the sizes sum to at
\* most the number of Articles.
C12_FallbackCommunitiesNonEmpty ==
    \A c \in Callers :
        Returned(c, "louvain", "fallback") =>
            LET cs == result[c].communities
                Members(k) == {a \in Articles : member[a] = k}
            IN /\ \A i \in 1..Len(cs) :
                    /\ cs[i].community_id \in Communities
                    /\ Members(cs[i].community_id) # {}
                    /\ cs[i].size = Cardinality(Members(cs[i].community_id))
               /\ \A i, j \in 1..Len(cs) :
                    i # j => cs[i].community_id # cs[j].community_id
               /\ SeqSum([i \in 1..Len(cs) |-> cs[i].size]) <= Cardinality(Articles)
               /\ result[c].total_communities = Len(cs)

\* the fallback left out a Community without members, and some Article
\* belongs to no Community
C12_Witness ==
    \E c \in Callers :
        /\ Returned(c, "louvain", "fallback")
        /\ Len(result[c].communities) = 1
        /\ \E k \in Communities : \A a \in Articles : member[a] # k
        /\ result[c].communities[1].size < Cardinality(Articles)
\* no execute_query call of the library call was hit by an engine fault
NoQueryFault == \A i \in 1..Len(qcalls) : ~qcalls[i].fault

\* the other Articles of the source's Community
CommunityPeers(s) ==
    IF s \in Articles /\ member[s] # 0
    THEN {x \in Articles \ {s} : member[x] = member[s]}
    ELSE {}

\* C13: a recommendation request whose strategy is none of 'community',
\* 'references', 'hybrid' is answered 400 before any graph-store call: no
\* query is executed for it and no candidate list is produced.
C13_InvalidStrategyRejected ==
    (qpc = "done" /\ qop = "POST /recommendations"
        /\ qargs.strategy \notin {"community", "references", "hybrid"})
        => /\ qoutcome = "raise"
           /\ qresult.status_code = 400
           /\ qcalls = <<>>

\* a request with an unknown strategy has been answered
C13_Witness ==
    /\ qpc = "done" /\ qop = "POST /recommendations"
    /\ qargs.strategy = "invalid"
    /\ qresult.status_code = 400
\* C14: get_recommendations with strategy 'community' never returns the
\* source article, every article it returns belongs to a Community the
\* source belongs to, and for a source without Community it returns the
\* empty list.
C14_CommunityRecommendations ==
    (qpc = "done" /\ qop = "get_recommendations"
        /\ qargs.strategy = "community" /\ NoQueryFault)
        => /\ qoutcome = "return"
                => \A i \in 1..Len(qresult) :
                       /\ qresult[i].id # qargs.article_id
                       /\ qresult[i].id \in CommunityPeers(qargs.article_id)
           /\ (qargs.article_id \in Articles /\ member[qargs.article_id] = 0)
                => (qoutcome = "return" /\ qresult = <<>>)

\* C15: get_recommendations with strategy 'hybrid' returns candidates from
\* exactly the union of the other Articles of the source's Community and
\* the Articles two REFERS_TO hops away that are neither the source nor
\* its neighbours: members of one set only are candidates too, nothing
\* outside both is returned, nothing twice, and every entry has score 1.0
\* and reason 'Hybrid recommendation'.
C15_HybridIsUnion ==
    (qpc = "done" /\ qop = "get_recommendations"
        /\ qargs.strategy = "hybrid" /\ NoQueryFault)
        => LET s == qargs.article_id
               candidates == CommunityPeers(s) \cup
                             (IF s \in Articles THEN SimilarCandidates(s) ELSE {})
           IN /\ qoutcome = "return"
              /\ \A i \in 1..Len(qresult) :
                    /\ qresult[i].id \in candidates
                    /\ qresult[i].score = <<1, 1>>
                    /\ qresult[i].reason = "Hybrid recommendation"
              /\ \A i, j \in 1..Len(qresult) :
                    i # j => qresult[i].id # qresult[j].id
              /\ Len(qresult) = Min(qargs.limit, Cardinality(candidates))
\* C16: on every graph get_analytics reports total_edges equal to half the
\* number of rows the undirected pattern ()-[:REFERS_TO]-() matches, so
\* that twice total_edges is that number, and avg_degree equal to
\* 2 * total_edges / total_articles.
C16_TotalEdgesHalfOfTraversal ==
    (qpc = "done" /\ qop = "get_analytics" /\ NoQueryFault)
        => /\ qoutcome = "return"
           /\ 2 * qresult.total_edges = Cardinality(TraversalRows)
           /\ FloatEqual(qresult.avg_degree,
                         <<2 * qresult.total_edges, qresult.total_articles>>)

\* the (source, target) pairs of the returned edge rows
EdgePairs(es) == {<<r.source, r.target>> : r \in BagToSet(es)}

\* C17: every edge export_subgraph returns with include_cross_edges=false
\* has both endpoints in the requested community and each connected pair
\* of members is reported once; the (source, target) pairs returned with
\* include_cross_edges=true contain every pair returned with false.
C17_InternalEdgesOncePerPair ==
    (qpc = "done" /\ qop = "export_subgraph" /\ NoQueryFault)
        => LET k == qargs.community_id
               members == {a \in Articles : member[a] = k}
               es == qresult.edges
               Reported(a, b) ==
                   BagCardinality([r \in {q \in BagToSet(es) :
                                             {q.source, q.target} = {a, b}}
                                       |-> CopiesIn(r, es)])
           IN /\ qoutcome = "return"
              /\ qresult.edge_count = BagCardinality(es)
              /\ ~qargs.include_cross_edges
                    => /\ \A r \in BagToSet(es) :
                             r.source \in members /\ r.target \in members
                       /\ \A a, b \in members :
                             (a # b /\ b \in Neighbours(a)) => Reported(a, b) = 1
                       /\ EdgePairs(es) \subseteq EdgePairs(ExportEdgeBag(k, TRUE))
              /\ qargs.include_cross_edges
                    => EdgePairs(ExportEdgeBag(k, FALSE)) \subseteq EdgePairs(es)

\* the Articles within n REFERS_TO relationships of s, direction ignored
RECURSIVE Ball(_, _)
Ball(s, n) ==
    IF n = 0 THEN {s}
    ELSE LET inner == Ball(s, n - 1)
         IN inner \cup {b \in Articles : \E a \in inner : b \in Neighbours(a)}

\* C18: find_shortest_path returns exists=true, length equal to the least
\* number of REFERS_TO relationships (direction ignored) joining source
\* and target, and a path of length+1 nodes from source to target,
\* whenever they are joined by at most max_depth relationships; for every
\* other pair of ids it returns exists=false, length=0, path=[] and
\* raises no error.  For source = target either answer is accepted.
C18_ShortestPathOrNone ==
    (qpc = "done" /\ qop = "find_shortest_path" /\ NoQueryFault)
        => LET s == qargs.source_id
               t == qargs.target_id
               known == s \in Articles /\ t \in Articles
               within == {n \in 0..qargs.max_depth : t \in Ball(s, n)}
               distance == CHOOSE n \in within : \A m \in within : n <= m
               found == /\ qresult.exists
                        /\ qresult.length = distance
                        /\ Len(qresult.path) = distance + 1
                        /\ qresult.path[1].id = s
                        /\ qresult.path[Len(qresult.path)].id = t
                        /\ \A i \in 1..distance :
                              qresult.path[i + 1].id \in Neighbours(qresult.path[i].id)
               none == qresult = [path |-> <<>>, length |-> 0, exists |-> FALSE]
           IN /\ qoutcome = "return"
              /\ IF known /\ within # {}
                 THEN IF s = t THEN (found \/ none) ELSE found
                 ELSE none
\* C19: verify_connectivity never propagates an exception, it returns true
\* when the store is reachable and false on every connectivity failure of
\* the driver; GET /health always answers 200, with status 'healthy'
\* exactly when database is 'connected' and 'degraded' exactly when it is
\* 'disconnected'.
C19_HealthNeverRaises ==
    (qpc = "done" /\ qop = "GET /health")
        => /\ qoutcome = "return"
           /\ qresult.status_code = 200
           /\ qresult.database =
                 (IF qargs.probe = "ok" THEN "connected" ELSE "disconnected")
           /\ qresult.status = "healthy" <=> qresult.database = "connected"
           /\ qresult.status = "degraded" <=> qresult.database = "disconnected"

\* C20: close() is idempotent, a call after the first changes nothing and
\* raises no error; the lifespan calls it once, at shutdown, and no
\* request handler calls it.
C20_CloseIdempotentOnceAtShutdown ==
    /\ \A i \in 1..Len(closes) :
          /\ ~closes[i].raised
          /\ i > 1 => closes[i].before = closes[i].after
    /\ Cardinality({i \in 1..Len(closes) : closes[i].by = "lifespan"})
          = (IF phase = "stopped" THEN 1 ELSE 0)
    /\ phase = "running" => (closes = <<>> /\ pool = "open")
    /\ phase = "stopped" => (closes[1].by = "lifespan" /\ pool = "closed")

\* close() was called again after the shutdown had closed the driver,
\* and a request had been served before
C20_Witness ==
    /\ phase = "stopped"
    /\ Len(closes) >= 2
    /\ closes[2].before = "closed"
    /\ qpc = "done"

\* C21: every execute_query and execute_write_query call opens exactly one
\* new session, which is closed once the call has returned or raised; no
\* session serves two calls, and with no call in progress no session is
\* open.
C21_SessionPerCallClosedOnExit ==
    /\ \A c \in Callers :
          /\ gpc[c] = "idle" => gcall[c].session \notin sessions
          /\ gpc[c] = "in_session" => gcall[c].session \in sessions
          /\ gcall[c].call =
                Cardinality({i \in 1..Len(session_log) : session_log[i].by = c})
    /\ \A i, j \in 1..Len(session_log) :
          i # j => /\ session_log[i].session # session_log[j].session
                   /\ <<session_log[i].by, session_log[i].call>>
                          # <<session_log[j].by, session_log[j].call>>
    /\ Cardinality(sessions) = Cardinality({c \in Callers : gpc[c] = "in_session"})
    /\ (\A c \in Callers : gpc[c] = "idle") => sessions = {}

\* a write call whose unit of work was retried has raised and is over,
\* while the other handler is inside a call of its own
C21_Witness ==
    /\ gpc[1] = "idle"
    /\ gcall[1].method = "execute_write_query"
    /\ gcall[1].outcome = "raise"
    /\ gcall[1].attempts >= 2
    /\ gpc[2] = "in_session"

\* the drop, create and algorithm calls of a run_* call, in issue order
ProjectionCalls(c) ==
    SelectSeq(calls[c], LAMBDA r : r.op \in {"drop", "create", "stream"})

\* C25: within one orchestration call the store calls on the projection
\* come in the order drop, create, algorithm run, teardown drop; the
\* algorithm run follows a create that succeeded, and after a failed
\* create no algorithm run is issued.
C25_DropCreateRunTeardown ==
    \A c \in Callers :
        LET ops == [i \in 1..Len(ProjectionCalls(c)) |-> ProjectionCalls(c)[i].op]
        IN /\ Len(ops) <= 4
           /\ ops = SubSeq(<<"drop", "create", "stream", "drop">>, 1, Len(ops))
           /\ \A i \in 1..Len(calls[c]) :
                 calls[c][i].op = "stream"
                     => \E j \in 1..(i - 1) :
                            calls[c][j].op = "create" /\ calls[c][j].ok
           /\ Failed(c, "create") => ~Issued(c, "stream")
           /\ (pc[c] = "done" /\ Issued(c, "stream")) => Len(ops) = 4

\* the create failed although the plugin is installed, and the call has
\* returned through its fallback
C25_Witness ==
    /\ gds
    /\ pc[1] = "done" /\ outcome[1] = "return" /\ path[1] = "fallback"
    /\ Failed(1, "create")

\* C26: two overlapping calls of the same algorithm share its projection
\* name, and a state is reachable in which the drop of one has removed
\* the projection the other created and still needs, so that the other's
\* algorithm query fails with the plugin installed.  No call removes its
\* own projection before its algorithm query, so wherever an algorithm
\* query found the projection gone the other call has dropped it, and
\* wherever a create found the name taken the other call had created it.
C26_ForeignDropBreaksCall ==
    \A c \in Callers : \A i \in 1..Len(calls[c]) :
        /\ (calls[c][i].op = "stream" /\ ~calls[c][i].present)
              => \E d \in Callers \ {c} : \E j \in 1..Len(calls[d]) :
                     calls[d][j].op = "drop" /\ calls[d][j].ok
        /\ (calls[c][i].op = "create" /\ ~calls[c][i].ok /\ calls[c][i].present)
              => \E d \in Callers \ {c} : \E j \in 1..Len(calls[d]) :
                     calls[d][j].op = "create" /\ calls[d][j].ok

\* call 1 created its projection, call 2 dropped it, and the algorithm
\* query of call 1 failed on the missing projection
C26_Witness ==
    /\ gds
    /\ \E i \in 1..Len(calls[1]) : calls[1][i].op = "create" /\ calls[1][i].ok
    /\ \E i \in 1..Len(calls[1]) :
           calls[1][i].op = "stream" /\ ~calls[1][i].ok /\ ~calls[1][i].present
    /\ \E j \in 1..Len(calls[2]) : calls[2][j].op = "drop" /\ calls[2][j].ok

\* the store calls of a call from its leading drop on
CallsFromLeadingDrop(c) ==
    LET first == CHOOSE i \in 1..Len(calls[c]) :
                     /\ calls[c][i].op = "drop"
                     /\ \A j \in 1..(i - 1) : calls[c][j].op # "drop"
    IN Len(calls[c]) - first + 1

\* C27: the execution_time_ms a run_* call reports spans the whole call,
\* from a mark taken before the leading drop to one taken after the
\* teardown drop, on the native and on the fallback path: with one clock
\* tick per store call it covers every store call from the leading drop
\* to the last one.
C27_TimeSpansWholeCall ==
    \A c \in Callers :
        (pc[c] = "done" /\ outcome[c] = "return" /\ path[c] \in {"native", "fallback"})
            => /\ result[c].execution_time_ms >= 1000 * CallsFromLeadingDrop(c)
               /\ result[c].execution_time_ms <= 1000 * Len(calls[c])

\* C29: on every graph, one without REFERS_TO relationships included,
\* get_analytics returns a result with total_articles, total_communities,
\* total_edges, avg_degree, top_communities and top_articles whenever the
\* store answers its queries: an empty statistics row or a zero divisor
\* does not make it fail.
C29_AnalyticsAlwaysComplete ==
    (qpc = "done" /\ qop = "get_analytics" /\ NoQueryFault)
        => /\ qoutcome = "return"
           /\ DOMAIN qresult = {"total_articles", "total_communities", "total_edges",
                                "avg_degree", "top_communities", "top_articles"}

\* C30: fetch_all_data sends at most `retries` requests for any one
\* offset; when every attempt for a batch is answered busy it returns the
\* rows collected so far, and it never reads data before its first
\* assignment nor the data of an earlier batch.
C30_AtMostRetriesPerOffset ==
    /\ \A o \in {requests[i] : i \in 1..Len(requests)} :
          Cardinality({i \in 1..Len(requests) : requests[i] = o}) <= fargs.retries
    /\ foutcome # "raise"
    /\ \A r \in data_reads : r.assigned /\ r.of = r.batch

\* C22: POST /query answers a query the store rejects or fails on with 400
\* and the failure's text in the detail, never 200 and never a 5xx; it
\* answers an accepted query with 200 and a count equal to the number of
\* records in data.
C22_RejectedQueryIs400 ==
    (qpc = "done" /\ qop = "POST /query") =>
        /\ Len(qcalls) = 1
        /\ ~qcalls[1].ok =>
              /\ qresult.status_code = 400
              /\ \E text \in Messages :
                    qresult.detail = <<"Query execution failed: ", text>>
        /\ qcalls[1].ok =>
              /\ qresult.status_code = 200
              /\ qresult.data = RawQueryRows(qargs.query)
              /\ qresult.count = Len(qresult.data)

\* the malformed query has reached the store and has been answered 400
C22_Witness ==
    /\ qpc = "done" /\ qop = "POST /query"
    /\ qargs.query = "INVALID CYPHER QUERY" /\ ~qcalls[1].fault
    /\ qresult.status_code = 400

\* a store call of the request failed
StoreFailed == \E i \in 1..Len(qcalls) : qcalls[i].fault

\* C24: a well-formed lookup that matches nothing is reported as not
\* found and never as a failure, and a store failure never as not found:
\* get_entity_by_id returns None and GET /entities/{id} answers 404 for an
\* id no node has, GET /communities/{id}/stats answers 404 for an id no
\* Community has, and both endpoints answer 500 exactly when the store
\* failed.
C24_NotFoundDistinctFromFailure ==
    /\ (qpc = "done" /\ qop \in {"get_entity_by_id", "GET /entities/{entity_id}"}
            /\ IsInteger(qargs.entity_id)) =>
          LET absent == \A n \in Nodes : InternalId(n) # ParseInt(qargs.entity_id)
          IN IF qop = "get_entity_by_id"
             THEN /\ (~StoreFailed /\ absent) => (qoutcome = "return" /\ qresult = None)
                  /\ StoreFailed <=> qoutcome = "raise"
             ELSE /\ qresult.status_code \in {200, 404, 500}
                  /\ qresult.status_code = 500 <=> StoreFailed
                  /\ qresult.status_code = 404 <=> (~StoreFailed /\ absent)
    /\ (qpc = "done" /\ qop = "GET /communities/{community_id}/stats") =>
          LET absent == qargs.community_id \notin Communities
          IN /\ qresult.status_code \in {200, 404, 500}
             /\ qresult.status_code = 500 <=> StoreFailed
             /\ qresult.status_code = 404 <=> (~StoreFailed /\ absent)

\* an entity lookup for an id no node has has been answered 404
C24_Witness ==
    /\ qpc = "done" /\ qop = "GET /entities/{entity_id}"
    /\ qargs.entity_id = <<"4", "0">>
    /\ qresult.status_code = 404
    /\ ~StoreFailed

\* the REFERS_TO relationships with both end Articles in community k
InternalRelationships(k) == {e \in edges : member[e[1]] = k /\ member[e[2]] = k}

\* C28: the internal_edges reported for a Community, by get_analytics in
\* top_communities and by the community statistics endpoint, is the
\* number of REFERS_TO relationships whose two end Articles both belong to
\* that Community, each relationship counted once.
C28_InternalEdgesCountedOnce ==
    /\ (qpc = "done" /\ qop = "GET /analytics" /\ qresult.status_code = 200) =>
          \A i \in 1..Len(qresult.top_communities) :
              qresult.top_communities[i].internal_edges
                  = Cardinality(InternalRelationships(
                        qresult.top_communities[i].community_id))
    /\ (qpc = "done" /\ qop = "GET /communities/{community_id}/stats"
            /\ qresult.status_code = 200) =>
          qresult.internal_edges
              = Cardinality(InternalRelationships(qresult.community_id))

\* C23: a store failure inside a domain endpoint is answered with a
\* generic server error, and with debug off the response carries none of
\* the engine's text: it is the response the endpoint gives to a failure
\* with any other message.
C23_GenericErrorNoDiagnostic ==
    (qpc = "done" /\ qop \in DomainEndpoints /\ StoreFailed) =>
        /\ qresult.status_code = 500
        /\ ~debug => \A text \in Messages : qresult = EndpointFailure(qop, text)

====
